---- MODULE Spec2Model ----
(***************************************************************************)
(* A model of rotate.py (radius-rotate): the FreeRADIUS policy compiler,   *)
(* its in-place deployment and the classification of the NAS devices.      *)
(*                                                                         *)
(* Texts are sequences of tokens.  A token is one character of the file    *)
(* ("\n", " ", "{", "}") or one word the code searches for as a whole      *)
(* ("authorize", "preprocess", the two marker comments, "x" for any other  *)
(* text).  The two markers have no self-overlap and neither contains the   *)
(* other, so a substring search for a marker is a search for its token.    *)
(***************************************************************************)
EXTENDS Integers, Sequences, FiniteSets, TLC

VARIABLES
    original,     \* inject_authorize_block: the file text handed in
    snippet,      \* inject_authorize_block: the rendered gate snippet
    injected,     \* outcome of the first injection
    reinjected,   \* outcome of injecting again into the first result
    ipc,          \* "start" | "once" | "twice"
    cfg,          \* the loaded configuration (CFG): policies, enforcement, prefixes, mode
    policies,     \* normalize_policies(cfg), once computed
    npc,          \* "start" | "done": the call of normalize_policies
    restart,      \* import_freeradius_config: the restart argument
    files,        \* the huntgroups file, sites-enabled/default and this run's two backups
    sa,           \* sites-available: file name -> content
    se,           \* sites-enabled: the names linked to sites-available
    before,       \* files, sa and se as they were before the run
    new_default,  \* import_freeradius_config: the injected text to write
    existing,     \* import_freeradius_config: the listing still to be looked at
    widx,         \* import_freeradius_config: the policy the write loop is at
    validatorCalls, \* runs of "freeradius -XC"
    res,          \* import_freeradius_config: what the check returned ("unset" before it)
    restartCalls, \* runs of "systemctl restart"
    rc,           \* the value returned (-1: none yet)
    dpc,          \* where import_freeradius_config is
    nas,          \* the rows of the nas table: nasname, shortname, server
    nas0,         \* the nas table as it was before assign_nas_servers
    conn,         \* assign_nas_servers: "none" | "ok" | "refused"
    updated,      \* assign_nas_servers: the count it prints
    writes,       \* assign_nas_servers: the UPDATE statements the database ran
    cpc,          \* "start" | "done": the call of assign_nas_servers
    first,        \* the three renderings of the policy list, and when they were made
    second,       \* the same policy list rendered again, later
    rpc,          \* "start" | "once" | "twice": the renderings
    rfiles,       \* two concurrent runs: the membership file and the gate file they share
    rbaks,        \* two concurrent runs: backup time stamp -> the copies under it
    procs,        \* two concurrent runs: each run's position, clock, texts and result
    overlapped,   \* both runs have been between their backup and their check at once
    rotcfg,       \* main: the prefixes, the count per prefix, the prefix use and the dry-run flag
    radcheck,     \* the stored accounts: username -> Cleartext-Password
    tx,           \* main: radcheck as the open transaction sees it
    sent,         \* main: the INSERT and UPDATE statements sent to the database in this run
    pidx,         \* main: the place in iter_prefixes of the prefix being worked on
    pending,      \* main: the accounts of "existing" whose password is still to change
    tocreate,     \* main: the accounts still to create for the prefix
    created,      \* main: the summary of created accounts (prefix, username, password)
    rotated,      \* main: the summary of changed passwords (prefix, username, password)
    raised,       \* main: the kinds of exception database operations raised in this run
    npw,          \* the number of passwords random_password has made
    outcome,      \* main: how the run ended
    runs,         \* the runs that ended, in order: the table before and after, the summaries
    rotpc         \* where main is

injVars == <<original, snippet, injected, reinjected, ipc>>
cfgVars == <<cfg, policies, npc>>
depVars == <<restart, files, sa, se, before, new_default, existing, widx,
             validatorCalls, res, restartCalls, rc, dpc>>

clsVars == <<nas, nas0, conn, updated, writes, cpc>>

rndVars == <<first, second, rpc>>

raceVars == <<rfiles, rbaks, procs, overlapped>>

rotVars == <<rotcfg, radcheck, tx, sent, pidx, pending, tocreate, created, rotated,
             raised, npw, outcome, runs, rotpc>>

vars == <<injVars, cfgVars, depVars, clsVars, rndVars, raceVars, rotVars>>

-----------------------------------------------------------------------------
(* Bounds *)

MaxLines == 4
MaxStr == 2
MaxPrefixes == 2
MaxPolicies == 2
MaxDevices == 2
MaxRuns == 2
MaxCount == 2

-----------------------------------------------------------------------------
(* Tokens *)

NL == "\n"
SP == " "
begin_marker == "# radius-rotate begin"
end_marker == "# radius-rotate end"
AUTHORIZE == "authorize"
PREPROCESS == "preprocess"
OPEN == "{"
CLOSE == "}"

\* str.strip() removes blanks and line breaks
Whitespace == {SP, NL}

-----------------------------------------------------------------------------
(* Python string primitives used by the injector *)

Contains(t, tok) == \E i \in 1..Len(t) : t[i] = tok

\* str.find: position of the first occurrence, 0 when there is none
IndexOf(t, tok) ==
    IF Contains(t, tok)
    THEN CHOOSE i \in 1..Len(t) : t[i] = tok /\ \A k \in 1..(i-1) : t[k] # tok
    ELSE 0

Before(t, i) == SubSeq(t, 1, i - 1)
After(t, i) == SubSeq(t, i + 1, Len(t))

EndsWith(t, tok) == Len(t) > 0 /\ t[Len(t)] = tok
StartsWith(t, tok) == Len(t) > 0 /\ t[1] = tok

Count(t, tok) == Cardinality({i \in 1..Len(t) : t[i] = tok})

RECURSIVE LStrip(_)
LStrip(t) ==
    IF t # <<>> /\ Head(t) \in Whitespace THEN LStrip(Tail(t)) ELSE t

RECURSIVE RStrip(_)
RStrip(t) ==
    IF t # <<>> /\ t[Len(t)] \in Whitespace
    THEN RStrip(SubSeq(t, 1, Len(t) - 1))
    ELSE t

Strip(t) == RStrip(LStrip(t))

\* str.splitlines(): a final line break opens no further line
RECURSIVE SplitLines(_)
SplitLines(t) ==
    IF t = <<>> THEN <<>>
    ELSE LET i == IndexOf(t, NL)
         IN  IF i = 0 THEN <<t>>
             ELSE <<Before(t, i)>> \o SplitLines(After(t, i))

\* "\n".join(lines)
RECURSIVE Join(_)
Join(ls) ==
    IF ls = <<>> THEN <<>>
    ELSE IF Len(ls) = 1 THEN ls[1]
    ELSE ls[1] \o <<NL>> \o Join(Tail(ls))

-----------------------------------------------------------------------------
(* inject_authorize_block *)

Returned(t) == [ok |-> TRUE, text |-> t]
\* the unpacking of a one-element split raises ValueError
Raised == [ok |-> FALSE, text |-> <<>>]
NotYet == [ok |-> FALSE, text |-> <<"-">>]

Indent4 == <<SP, SP, SP, SP>>

\* lines 815-818: both markers occur somewhere in the text
MarkersPresent(t) == Contains(t, begin_marker) /\ Contains(t, end_marker)

\* a greedy variant: the rest is cut at its last end marker
ReplaceMarkedGreedy(t, s) ==
    LET b    == IndexOf(t, begin_marker)
        pre  == Before(t, b)
        rest == After(t, b)
    IN  IF ~Contains(rest, end_marker) THEN Raised
        ELSE LET e == CHOOSE i \in 1..Len(rest) :
                        /\ rest[i] = end_marker
                        /\ \A k \in (i+1)..Len(rest) : rest[k] # end_marker
             IN  Returned(pre \o <<begin_marker, NL>> \o s \o <<end_marker>> \o After(rest, e))

\* lines 816-818: split at the first begin marker, then the rest at the
\* first end marker
ReplaceMarked(t, s) ==
    LET b    == IndexOf(t, begin_marker)
        pre  == Before(t, b)
        rest == After(t, b)
        e    == IndexOf(rest, end_marker)
    IN  IF e = 0 THEN Raised
        ELSE Returned(pre \o <<begin_marker, NL>> \o s \o <<end_marker>> \o After(rest, e))

\* lines 824-828: the first line that declares the authorize block (0: none)
IsAuthorizeLine(line) ==
    LET s == Strip(line) IN StartsWith(s, AUTHORIZE) /\ EndsWith(s, OPEN)

FindAuthorize(lines) ==
    IF \E i \in 1..Len(lines) : IsAuthorizeLine(lines[i])
    THEN CHOOSE i \in 1..Len(lines) :
            /\ IsAuthorizeLine(lines[i])
            /\ \A k \in 1..(i-1) : ~IsAuthorizeLine(lines[k])
    ELSE 0

\* lines 834-838: the brace balance after lines start..i
RECURSIVE BraceBalance(_, _, _)
BraceBalance(lines, start, i) ==
    IF i < start THEN 0
    ELSE BraceBalance(lines, start, i - 1)
            + Count(lines[i], OPEN) - Count(lines[i], CLOSE)

\* lines 834-841: the first line at which the balance is back to zero (0: none)
FindClose(lines, start) ==
    IF \E i \in start..Len(lines) : BraceBalance(lines, start, i) = 0
    THEN CHOOSE i \in start..Len(lines) :
            /\ BraceBalance(lines, start, i) = 0
            /\ \A k \in start..(i-1) : BraceBalance(lines, start, k) # 0
    ELSE 0

\* a variant that puts the marked snippet in front of the text
PrependFallback(t, s) ==
    <<begin_marker, NL>> \o s \o <<end_marker, NL>> \o t

\* lines 831 and 844
AppendFallback(t, s) ==
    t \o <<NL, begin_marker, NL>> \o s \o <<end_marker, NL>>

\* lines 847-848
HasPreprocess(lines, start, end) ==
    \E i \in start..end : StartsWith(Strip(lines[i]), PREPROCESS)

\* lines 853-854: leading[:leading.find("authorize")]
BlockIndent(lines, start) ==
    Before(lines[start], IndexOf(lines[start], AUTHORIZE))

\* lines 859-865
NewBody(lines, start, end, s) ==
    LET indent == BlockIndent(lines, start)
        snip   == SplitLines(Strip(s))
    IN  (IF HasPreprocess(lines, start, end) THEN <<>>
         ELSE <<indent \o Indent4 \o <<PREPROCESS>>>>)
        \o <<indent \o Indent4 \o <<begin_marker>>>>
        \o [k \in 1..Len(snip) |-> indent \o Indent4 \o snip[k]]
        \o <<indent \o Indent4 \o <<end_marker>>>>

\* lines 855-867: the rebuilt block; body (line 857) is computed and not used
InjectedBlock(lines, start, end, s) ==
    <<lines[start]>> \o NewBody(lines, start, end, s) \o <<lines[end]>>

\* line 870
TrailingNewline(t) == IF ~EndsWith(t, NL) THEN <<NL>> ELSE <<>>

InsertInBlock(t, lines, start, end, s) ==
    Join(SubSeq(lines, 1, start - 1)
            \o InjectedBlock(lines, start, end, s)
            \o SubSeq(lines, end + 1, Len(lines)))
        \o TrailingNewline(t)

\* lines 811-870
inject_authorize_block(t, s) ==
    IF MarkersPresent(t) THEN ReplaceMarked(t, s)
    ELSE LET lines == SplitLines(t)
             start == FindAuthorize(lines)
         IN  IF start = 0 THEN Returned(AppendFallback(t, s))
             ELSE LET end == FindClose(lines, start)
                  IN  IF end = 0 THEN Returned(AppendFallback(t, s))
                      ELSE Returned(InsertInBlock(t, lines, start, end, s))

\* which return statement of inject_authorize_block a text takes
InjectPath(t) ==
    IF MarkersPresent(t)
    THEN (IF ReplaceMarked(t, <<>>).ok THEN "markers" ELSE "raise")
    ELSE LET lines == SplitLines(t)
             start == FindAuthorize(lines)
         IN  IF start = 0 THEN "append"
             ELSE IF FindClose(lines, start) = 0 THEN "append" ELSE "block"

-----------------------------------------------------------------------------
(* Policies: normalize_policies and the label helpers                     *)
(*                                                                         *)
(* A prefix or a label is a sequence of characters.  One character stands  *)
(* for each class the code tells apart: an ASCII letter, an ASCII digit, a *)
(* letter outside ASCII (str.isalnum() is true of it), the three allowed   *)
(* punctuation marks, the blank and one other character.                   *)

AsciiLetters ==
    {"a", "b", "c", "d", "e", "f", "g", "h", "i", "j", "k", "l", "m", "n", "o",
     "p", "q", "r", "s", "t", "u", "v", "w", "x", "y", "z"}
AsciiDigits == {"7"}
\* U+00E9, a letter outside ASCII
NonAsciiLetters == {"U+00E9"}
AllowedPunct == {"-", "_", "."}

\* str.isalnum() of one character
IsAlnum(ch) == ch \in AsciiLetters \cup AsciiDigits \cup NonAsciiLetters

\* lines 611-620
sanitize_huntgroup_name(name) ==
    LET s == [i \in 1..Len(name) |->
                IF IsAlnum(name[i]) \/ name[i] \in AllowedPunct
                THEN name[i] ELSE "_"]
    IN  IF s = <<>> THEN <<"h", "g">> ELSE s

\* str.rstrip(chars)
RECURSIVE RStripChars(_, _)
RStripChars(t, chars) ==
    IF t # <<>> /\ t[Len(t)] \in chars
    THEN RStripChars(SubSeq(t, 1, Len(t) - 1), chars)
    ELSE t

\* lines 622-626
default_huntgroup_for_prefix(prefix) ==
    LET stripped == RStripChars(prefix, {"-", "_", " "})
        base     == IF stripped = <<>> THEN <<"p", "r", "e", "f", "i", "x">>
                    ELSE stripped
    IN  sanitize_huntgroup_name(base \o <<"d", "e", "v", "s">>)

\* A raw entry of RADIUS_ACCESS_POLICIES.  isdict: the entry is a JSON
\* object.  A string field is [kind: "absent" | "str", val]; a selector
\* field is [kind: "absent" | "str" | "list", items], a scalar string being
\* one item.
AbsentField == [kind |-> "absent", val |-> <<>>]
StrField(s) == [kind |-> "str", val |-> s]
AbsentSel == [kind |-> "absent", items |-> <<>>]
ScalarSel(s) == [kind |-> "str", items |-> <<s>>]
ListSel(ss) == [kind |-> "list", items |-> ss]

RawPolicy(pref, hg, cidrs, nasid, called) ==
    [isdict |-> TRUE, prefix |-> pref, huntgroup |-> hg, cidrs |-> cidrs,
     nas_identifier_regex |-> nasid, called_station_regex |-> called]

\* an entry that is no object (a string, a number)
NotADict ==
    [isdict |-> FALSE, prefix |-> AbsentField, huntgroup |-> AbsentField,
     cidrs |-> AbsentSel, nas_identifier_regex |-> AbsentSel,
     called_station_regex |-> AbsentSel]

\* lines 650-659 and 663-665: p.get(key) or [], a scalar string made a list
CoerceSelector(f) ==
    IF f.kind = "absent" THEN <<>>
    ELSE IF f.kind = "str" /\ f.items = <<"">> THEN <<>>
    ELSE f.items

\* line 648: str(p.get("prefix", ""))
PrefixOf(p) == IF p.prefix.kind = "absent" THEN <<>> ELSE p.prefix.val

\* line 649: str(p.get("huntgroup") or default_huntgroup_for_prefix(pref))
HuntgroupOf(p) ==
    IF p.huntgroup.kind = "absent" \/ p.huntgroup.val = <<>>
    THEN default_huntgroup_for_prefix(PrefixOf(p))
    ELSE p.huntgroup.val

\* the placeholder network of line 639
SentinelCidr == "0.0.0.0/32"

\* a variant that leaves the synthesized policy without any selector
SynthesizedNoSelector(pref) ==
    [prefix |-> pref, huntgroup |-> default_huntgroup_for_prefix(pref),
     cidrs |-> <<>>, nas_identifier_regex |-> <<>>, called_station_regex |-> <<>>]

\* lines 634-642
Synthesized(pref) ==
    [prefix |-> pref, huntgroup |-> default_huntgroup_for_prefix(pref),
     cidrs |-> <<SentinelCidr>>, nas_identifier_regex |-> <<>>,
     called_station_regex |-> <<>>]

\* lines 648-666
NormalizedEntry(p) ==
    [prefix |-> PrefixOf(p),
     huntgroup |-> sanitize_huntgroup_name(HuntgroupOf(p)),
     cidrs |-> CoerceSelector(p.cidrs),
     nas_identifier_regex |-> CoerceSelector(p.nas_identifier_regex),
     called_station_regex |-> CoerceSelector(p.called_station_regex)]

\* lines 645-667: entries that are no object are skipped
RECURSIVE NormalizeEntries(_)
NormalizeEntries(raw) ==
    IF raw = <<>> THEN <<>>
    ELSE (IF Head(raw).isdict THEN <<NormalizedEntry(Head(raw))>> ELSE <<>>)
            \o NormalizeEntries(Tail(raw))

\* lines 628-667
normalize_policies(c) ==
    IF c.RADIUS_ACCESS_POLICIES = <<>> /\ c.RADIUS_ENFORCE_PREFIX_ACCESS
    THEN [i \in 1..Len(c.RADIUS_PREFIXES) |-> Synthesized(c.RADIUS_PREFIXES[i])]
    ELSE NormalizeEntries(c.RADIUS_ACCESS_POLICIES)

-----------------------------------------------------------------------------
(* The configurations normalize_policies is run on *)

InChars == {"a", "U+00E9", "-", ".", " ", "/"}

Strings == UNION {[1..n -> InChars] : n \in 0..MaxStr}

\* load_config (lines 139-147) keeps the prefixes that are not blank, stripped
LoadedPrefixes == {s \in Strings : s # <<>> /\ s[1] # " " /\ s[Len(s)] # " "}

SomePrefixes == {<<"a", "-">>, <<"U+00E9">>, <<"-">>}

PrefixLists ==
    {<<s>> : s \in LoadedPrefixes}
        \cup UNION {[1..n -> SomePrefixes] : n \in 0..MaxPrefixes}

SelectorChoices ==
    { <<AbsentSel, AbsentSel, AbsentSel>>,
      <<ListSel(<<>>), AbsentSel, ListSel(<<>>)>>,
      <<ScalarSel("10.0.0.0/24"), AbsentSel, AbsentSel>>,
      <<ListSel(<<"10.0.0.0/24", "192.168.1.7/32">>), ListSel(<<"^ap-">>), AbsentSel>>,
      <<AbsentSel, ScalarSel("^ap-"), ScalarSel("^AA-BB")>> }

RichPolicies ==
    {RawPolicy(IF s = <<>> THEN AbsentField ELSE StrField(s), AbsentField,
               c[1], c[2], c[3]) : s \in Strings, c \in SelectorChoices}
        \cup {RawPolicy(StrField(<<>>), AbsentField, c[1], c[2], c[3]) :
                c \in SelectorChoices}
        \cup {RawPolicy(StrField(<<"a", "-">>), StrField(s), c[1], c[2], c[3]) :
                s \in Strings, c \in SelectorChoices}

PlainPolicy ==
    RawPolicy(StrField(<<"a", "-">>), StrField(<<"a", "d", "e", "v", "s">>),
              ListSel(<<"10.0.0.0/24">>), AbsentSel, AbsentSel)

RawPolicyLists ==
    {<<>>} \cup {<<p>> : p \in RichPolicies}
        \cup {<<q, p>> : q \in {NotADict, PlainPolicy}, p \in RichPolicies}
        \cup {<<p, q>> : q \in {NotADict, PlainPolicy}, p \in RichPolicies}

Config(raw, enforce, prefixes, mode) ==
    [RADIUS_ACCESS_POLICIES |-> raw, RADIUS_ENFORCE_PREFIX_ACCESS |-> enforce,
     RADIUS_PREFIXES |-> prefixes, RADIUS_FR_MODE |-> mode]

NormConfigs ==
    {Config(<<>>, e, ps, "virtual_server") : e \in BOOLEAN, ps \in PrefixLists}
        \cup {Config(raw, e, <<<<"a", "-">>>>, "virtual_server") :
                raw \in RawPolicyLists, e \in BOOLEAN}

NormInit ==
    /\ cfg \in NormConfigs
    /\ policies = <<>>
    /\ npc = "start"

\* no configuration is loaded
CfgIdle ==
    /\ cfg = Config(<<>>, FALSE, <<>>, "virtual_server")
    /\ policies = <<>>
    /\ npc = "idle"

\* policies = normalize_policies(cfg)
Normalize ==
    /\ npc = "start"
    /\ policies' = normalize_policies(cfg)
    /\ npc' = "done"
    /\ UNCHANGED <<cfg, injVars, depVars, clsVars, rndVars, raceVars, rotVars>>

NormNext == Normalize

-----------------------------------------------------------------------------
(* The texts the injector is run on *)

LineKinds ==
    { <<"x">>,
      <<SP, AUTHORIZE, SP, OPEN>>,
      <<"x", SP, OPEN>>,
      <<SP, SP, PREPROCESS>>,
      <<CLOSE>>,
      <<begin_marker>>,
      <<end_marker>> }

LineSeqs == UNION {[1..n -> LineKinds] : n \in 0..MaxLines}

Texts == {Join(ls) : ls \in LineSeqs} \cup {Join(ls) \o <<NL>> : ls \in LineSeqs}

\* gate snippets as render_unlang_authorize_text lays them out (lines 709-718):
\* a header line, then per policy an if-line, "    reject" and "}"
Snippets ==
    { <<"x", NL>>,
      <<"x", NL, "x", SP, OPEN, NL, SP, SP, SP, SP, "x", NL, CLOSE, NL>> }

InjInit ==
    /\ original \in Texts
    /\ snippet \in Snippets
    /\ injected = NotYet
    /\ reinjected = NotYet
    /\ ipc = "start"

\* the injector is not run
InjIdle ==
    /\ original = <<>>
    /\ snippet = <<>>
    /\ injected = NotYet
    /\ reinjected = NotYet
    /\ ipc = "idle"

\* one run of the injector on the file
InjectFirst ==
    /\ ipc = "start"
    /\ injected' = inject_authorize_block(original, snippet)
    /\ ipc' = "once"
    /\ UNCHANGED <<original, snippet, reinjected, cfgVars, depVars, clsVars, rndVars, raceVars, rotVars>>

\* the next run, on the text the first run returned
InjectAgain ==
    /\ ipc = "once"
    /\ injected.ok
    /\ reinjected' = inject_authorize_block(injected.text, snippet)
    /\ ipc' = "twice"
    /\ UNCHANGED <<original, snippet, injected, cfgVars, depVars, clsVars, rndVars, raceVars, rotVars>>

InjNext == InjectFirst \/ InjectAgain

-----------------------------------------------------------------------------
(* Rendering *)

\* the characters line 714 puts a backslash before
RegexMeta == {"^", "$", ".", "|", "?", "*", "+", "(", ")", "[", "]", "{", "}", "\\"}

\* lines 714 and 943
RECURSIVE EscapeRegex(_)
EscapeRegex(s) ==
    IF s = <<>> THEN <<>>
    ELSE (IF Head(s) \in RegexMeta THEN <<"\\", Head(s)>> ELSE <<Head(s)>>)
            \o EscapeRegex(Tail(s))

\* "\n".join(lines) + "\n"
JoinLines(ls) == IF ls = <<>> THEN <<NL>> ELSE Join(ls) \o <<NL>>

\* lines 715-717
GateLines(p) ==
    << <<"if (&Huntgroup-Name == \"">> \o p.huntgroup
            \o <<"\" && &User-Name !~ /^">> \o EscapeRegex(p.prefix)
            \o <<"/)", SP, OPEN>>,
       <<SP, SP, SP, SP, "reject">>,
       <<CLOSE>> >>

RECURSIVE GateBody(_)
GateBody(ps) ==
    IF ps = <<>> THEN <<>> ELSE GateLines(Head(ps)) \o GateBody(Tail(ps))

\* lines 707-718
render_unlang_authorize_text(ps) ==
    JoinLines(<< <<"# radius-rotate: add this block to sites-enabled/default 'authorize' after 'preprocess'">> >>
                \o GateBody(ps))

\* ipaddress.ip_network(s, strict=False) of the selector strings in use
V4(o, len) == [kind |-> "v4", octets |-> o, len |-> len]
ParseNetwork(s) ==
    CASE s = "0.0.0.0/32"     -> V4(<<0, 0, 0, 0>>, 32)
      [] s = "192.168.1.7/32" -> V4(<<192, 168, 1, 7>>, 32)
      [] s = "10.0.0.0/24"    -> V4(<<10, 0, 0, 0>>, 24)
      [] s = "10.0.0.5/24"    -> V4(<<10, 0, 0, 5>>, 24)
      [] s = "10.20.0.0/16"   -> V4(<<10, 20, 0, 0>>, 16)
      [] s = "10.0.0.0/8"     -> V4(<<10, 0, 0, 0>>, 8)
      [] s = "10.0.0.128/25"  -> V4(<<10, 0, 0, 128>>, 25)
      [] s = "fe80::/64"      -> [kind |-> "v6", octets |-> <<>>, len |-> 64]
      [] OTHER                -> [kind |-> "invalid", octets |-> <<>>, len |-> 0]

Pow2(n) == IF n = 0 THEN 1 ELSE IF n = 1 THEN 2 ELSE IF n = 2 THEN 4
           ELSE IF n = 3 THEN 8 ELSE IF n = 4 THEN 16 ELSE IF n = 5 THEN 32
           ELSE IF n = 6 THEN 64 ELSE IF n = 7 THEN 128 ELSE 256

\* the bits of octet j (1..4) a mask of length len covers
MaskBits(len, j) ==
    IF len >= 8 * j THEN 8 ELSE IF len <= 8 * (j - 1) THEN 0 ELSE len - 8 * (j - 1)

\* n.network_address: the host bits cleared (strict=False)
NetworkAddress(n) ==
    [j \in 1..4 |-> (n.octets[j] \div Pow2(8 - MaskBits(n.len, j)))
                        * Pow2(8 - MaskBits(n.len, j))]

\* str() of an octet: its decimal digits, one character each
RECURSIVE Digits(_)
Digits(n) ==
    IF n < 10 THEN <<ToString(n)>> ELSE Digits(n \div 10) \o <<ToString(n % 10)>>

\* str() of an IPv4 address
AddrText(o) ==
    Digits(o[1]) \o <<".">> \o Digits(o[2]) \o <<".">> \o Digits(o[3])
        \o <<".">> \o Digits(o[4])

\* lines 683-686: "^" + the leading octets, each dot escaped, + "."
RECURSIVE OctetPrefixRegex(_, _)
OctetPrefixRegex(o, take) ==
    IF take = 1 THEN Digits(o[1])
    ELSE OctetPrefixRegex(o, take - 1) \o <<"\\", ".">> \o Digits(o[take])

\* lines 677-697: the membership rule of one network selector
CidrRule(hg, net) ==
    LET n == ParseNetwork(net)
    IN  IF n.kind = "invalid"
        THEN hg \o <<"\t", "NAS-IP-Address =~ \"", net, "\"">>
        ELSE IF n.kind = "v6"
        THEN hg \o <<"\t", "NAS-IP-Address == ", net>>
        ELSE IF n.len \in {8, 16, 24}
        THEN hg \o <<"\t", "NAS-IP-Address =~ \"", "^">>
                \o OctetPrefixRegex(NetworkAddress(n), n.len \div 8)
                \o <<".", "\"">>
        ELSE hg \o <<"\t", "NAS-IP-Address == ">> \o AddrText(NetworkAddress(n))

\* lines 698-704
PatternRule(hg, attr, rx) == hg \o <<"\t", attr, rx, "\"">>

\* lines 674-704
HuntLines(p) ==
    [i \in 1..Len(p.cidrs) |-> CidrRule(p.huntgroup, p.cidrs[i])]
        \o [i \in 1..Len(p.nas_identifier_regex) |->
                PatternRule(p.huntgroup, "NAS-Identifier =~ \"", p.nas_identifier_regex[i])]
        \o [i \in 1..Len(p.called_station_regex) |->
                PatternRule(p.huntgroup, "Called-Station-Id =~ \"", p.called_station_regex[i])]

RECURSIVE HuntBody(_)
HuntBody(ps) ==
    IF ps = <<>> THEN <<>> ELSE HuntLines(Head(ps)) \o HuntBody(Tail(ps))

\* lines 669-705; at: datetime.now() as line 671 formats it
render_huntgroups_text(ps, at) ==
    JoinLines(<< <<"# radius-rotate generated huntgroups at ", at>>,
                 <<"# Copy/merge into /etc/freeradius/3.0/huntgroups">> >>
                \o HuntBody(ps))

VsHeader == "# radius-rotate virtual server for prefix "

\* lines 942-960
render_vs(pref, vsname) ==
    <<VsHeader, "'">> \o pref \o <<"'", NL, "server", SP>> \o vsname
        \o <<SP, OPEN, NL, "    authorize {", NL, "        if (&User-Name !~ /^">>
        \o EscapeRegex(pref)
        \o <<"/) {", NL, "            reject", NL, "        }", NL,
             "        preprocess", NL, "        files", NL, "        sql", NL,
             "    }", NL, "    authenticate {", NL, "        Auth-Type PAP {", NL,
             "            pap", NL, "        }", NL, "    }", NL, CLOSE, NL>>

-----------------------------------------------------------------------------
(* import_freeradius_config *)

\* the content of a path that does not exist
NoFile == <<"ENOENT">>

\* the wall clock of the run, as lines 671 and 895 format it
Now == "20250101120000"

Labels(ps) == {ps[i].huntgroup : i \in 1..Len(ps)}

\* a set as a sequence, in the order "ls -1" lists it
RECURSIVE Listing(_)
Listing(S) ==
    IF S = {} THEN <<>>
    ELSE LET x == CHOOSE y \in S : TRUE IN <<x>> \o Listing(S \ {x})

Return(code) ==
    /\ rc' = code
    /\ dpc' = "done"

\* lines 873-881: the platform, sudo and the freeradius binary
Precheck ==
    /\ dpc = "start"
    /\ \E found \in {"all", "not linux", "no sudo", "no freeradius"} :
        IF found = "all"
        THEN dpc' = "normalize" /\ rc' = rc
        ELSE Return(2)
    /\ UNCHANGED <<restart, files, sa, se, before, new_default, existing, widx,
                   validatorCalls, res, restartCalls, cfgVars, injVars, clsVars, rndVars, raceVars, rotVars>>

\* a variant that goes on with an empty policy list
DeployNormalizeNoShortCircuit ==
    /\ dpc = "normalize"
    /\ policies' = normalize_policies(cfg)
    /\ npc' = "done"
    /\ rc' = rc
    /\ dpc' = IF cfg.RADIUS_FR_MODE = "huntgroups" THEN "read" ELSE "list"
    /\ UNCHANGED <<cfg, restart, files, sa, se, before, new_default, existing, widx,
                   validatorCalls, res, restartCalls, injVars, clsVars, rndVars, raceVars, rotVars>>

\* lines 883-887
DeployNormalize ==
    /\ dpc = "normalize"
    /\ policies' = normalize_policies(cfg)
    /\ npc' = "done"
    /\ IF policies' = <<>> THEN Return(1)
       ELSE /\ rc' = rc
            /\ dpc' = IF cfg.RADIUS_FR_MODE = "huntgroups" THEN "read" ELSE "list"
    /\ UNCHANGED <<cfg, restart, files, sa, se, before, new_default, existing, widx,
                   validatorCalls, res, restartCalls, injVars, clsVars, rndVars, raceVars, rotVars>>

\* a variant that copies the membership file before it reads the gate file
ReadDefaultAfterBackup ==
    /\ dpc = "read"
    /\ \E readable \in BOOLEAN :
        IF ~readable \/ files.site = NoFile
        THEN /\ Return(2)
             /\ new_default' = new_default
             /\ files' = [files EXCEPT !.hunt_bak = files.hunt]
        ELSE /\ new_default' = inject_authorize_block(files.site,
                                    render_unlang_authorize_text(policies))
             /\ rc' = rc
             /\ dpc' = IF new_default'.ok THEN "backup_hunt" ELSE "raised"
             /\ files' = files
    /\ UNCHANGED <<restart, sa, se, before, existing, widx,
                   validatorCalls, res, restartCalls, cfgVars, injVars, clsVars, rndVars, raceVars, rotVars>>

\* lines 899-903: "sudo cat" of the default site, then the injection
ReadDefault ==
    /\ dpc = "read"
    /\ \E readable \in BOOLEAN :
        IF ~readable \/ files.site = NoFile
        THEN Return(2) /\ new_default' = new_default
        ELSE /\ new_default' = inject_authorize_block(files.site,
                                    render_unlang_authorize_text(policies))
             /\ rc' = rc
             /\ dpc' = IF new_default'.ok THEN "backup_hunt" ELSE "raised"
    /\ UNCHANGED <<restart, files, sa, se, before, existing, widx,
                   validatorCalls, res, restartCalls, cfgVars, injVars, clsVars, rndVars, raceVars, rotVars>>

\* line 905: "sudo cp -a hunt_path hunt_bak", its result not looked at
BackupHunt ==
    /\ dpc = "backup_hunt"
    /\ \E copied \in BOOLEAN :
        files' = IF copied /\ files.hunt # NoFile
                 THEN [files EXCEPT !.hunt_bak = files.hunt] ELSE files
    /\ dpc' = "backup_site"
    /\ UNCHANGED <<restart, sa, se, before, new_default, existing, widx,
                   validatorCalls, res, restartCalls, rc, cfgVars, injVars, clsVars, rndVars, raceVars, rotVars>>

\* line 906
BackupSite ==
    /\ dpc = "backup_site"
    /\ \E copied \in BOOLEAN :
        files' = IF copied /\ files.site # NoFile
                 THEN [files EXCEPT !.site_bak = files.site] ELSE files
    /\ dpc' = "write_hunt"
    /\ UNCHANGED <<restart, sa, se, before, new_default, existing, widx,
                   validatorCalls, res, restartCalls, rc, cfgVars, injVars, clsVars, rndVars, raceVars, rotVars>>

\* lines 908-910: "sudo tee hunt_path"
WriteHunt ==
    /\ dpc = "write_hunt"
    /\ \E written \in BOOLEAN :
        IF written
        THEN /\ files' = [files EXCEPT !.hunt = render_huntgroups_text(policies, Now)]
             /\ dpc' = "write_site"
             /\ rc' = rc
        ELSE Return(2) /\ files' = files
    /\ UNCHANGED <<restart, sa, se, before, new_default, existing, widx,
                   validatorCalls, res, restartCalls, cfgVars, injVars, clsVars, rndVars, raceVars, rotVars>>

\* lines 911-913
WriteDefault ==
    /\ dpc = "write_site"
    /\ \E written \in BOOLEAN :
        IF written
        THEN /\ files' = [files EXCEPT !.site = new_default.text]
             /\ dpc' = "validate"
             /\ rc' = rc
        ELSE Return(2) /\ files' = files
    /\ UNCHANGED <<restart, sa, se, before, new_default, existing, widx,
                   validatorCalls, res, restartCalls, cfgVars, injVars, clsVars, rndVars, raceVars, rotVars>>

\* what follows a passed check (lines 924-934 and 994-1002)
AfterValid ==
    IF restart THEN dpc' = "restart" /\ rc' = rc ELSE Return(0)

\* lines 916-917: "sudo freeradius -XC" in group-membership mode
ValidateHunt ==
    /\ dpc = "validate"
    /\ validatorCalls' = validatorCalls + 1
    /\ \E valid \in BOOLEAN :
        /\ res' = IF valid THEN "passed" ELSE "failed"
        /\ IF valid THEN AfterValid ELSE dpc' = "restore_hunt" /\ rc' = rc
    /\ UNCHANGED <<restart, files, sa, se, before, new_default, existing, widx,
                   restartCalls, cfgVars, injVars, clsVars, rndVars, raceVars, rotVars>>

\* a variant that leaves the written membership file in place
RestoreHuntSkipped ==
    /\ dpc = "restore_hunt"
    /\ files' = files
    /\ dpc' = "restore_site"
    /\ UNCHANGED <<restart, sa, se, before, new_default, existing, widx,
                   validatorCalls, res, restartCalls, rc, cfgVars, injVars, clsVars, rndVars, raceVars, rotVars>>

\* line 920: "sudo cp -a hunt_bak hunt_path"
RestoreHunt ==
    /\ dpc = "restore_hunt"
    /\ files' = IF files.hunt_bak # NoFile
                THEN [files EXCEPT !.hunt = files.hunt_bak] ELSE files
    /\ dpc' = "restore_site"
    /\ UNCHANGED <<restart, sa, se, before, new_default, existing, widx,
                   validatorCalls, res, restartCalls, rc, cfgVars, injVars, clsVars, rndVars, raceVars, rotVars>>

\* lines 921-922
RestoreDefault ==
    /\ dpc = "restore_site"
    /\ files' = IF files.site_bak # NoFile
                THEN [files EXCEPT !.site = files.site_bak] ELSE files
    /\ Return(1)
    /\ UNCHANGED <<restart, sa, se, before, new_default, existing, widx,
                   validatorCalls, res, restartCalls, cfgVars, injVars, clsVars, rndVars, raceVars, rotVars>>

\* a variant that puts the backups back when the restart fails
RestartRollsBack ==
    /\ dpc = "restart"
    /\ restartCalls' = restartCalls + 1
    /\ \E restarted \in BOOLEAN :
        IF restarted THEN Return(0) /\ UNCHANGED <<files, sa, se>>
        ELSE /\ Return(1)
             /\ files' = [files EXCEPT !.hunt = files.hunt_bak, !.site = files.site_bak]
             /\ sa' = before.sa
             /\ se' = before.se
    /\ UNCHANGED <<restart, before, new_default, existing, widx,
                   validatorCalls, res, cfgVars, injVars, clsVars, rndVars, raceVars, rotVars>>

\* lines 926-931 and 996-1001: "sudo systemctl restart"
Restart ==
    /\ dpc = "restart"
    /\ restartCalls' = restartCalls + 1
    /\ \E restarted \in BOOLEAN : IF restarted THEN Return(0) ELSE Return(1)
    /\ UNCHANGED <<restart, files, sa, se, before, new_default, existing, widx,
                   validatorCalls, res, cfgVars, injVars, clsVars, rndVars, raceVars, rotVars>>

\* lines 963-967: "sudo ls -1 sites-available"
ListSites ==
    /\ dpc = "list"
    /\ \E listed \in BOOLEAN :
        existing' = IF listed THEN Listing(DOMAIN sa) ELSE <<>>
    /\ dpc' = "remove"
    /\ UNCHANGED <<restart, files, sa, se, before, new_default, widx,
                   validatorCalls, res, restartCalls, rc, cfgVars, injVars, clsVars, rndVars, raceVars, rotVars>>

\* a variant that does not look at the file's first line
RemoveStaleAnyFile ==
    /\ dpc = "remove"
    /\ existing # <<>>
    /\ LET fname == Head(existing)
       IN  IF fname \notin Labels(policies)
           THEN /\ sa' = [n \in (DOMAIN sa) \ {fname} |-> sa[n]]
                /\ se' = se \ {fname}
           ELSE UNCHANGED <<sa, se>>
    /\ existing' = Tail(existing)
    /\ UNCHANGED <<restart, files, before, new_default, widx,
                   validatorCalls, res, restartCalls, rc, dpc, cfgVars, injVars, clsVars, rndVars, raceVars, rotVars>>

\* lines 969-975: one file of the listing; a file that cannot be read counts
\* as empty
RemoveStale ==
    /\ dpc = "remove"
    /\ existing # <<>>
    /\ LET fname == Head(existing)
       IN  \E readable \in BOOLEAN :
            IF readable /\ StartsWith(sa[fname], VsHeader)
                /\ fname \notin Labels(policies)
            THEN /\ sa' = [n \in (DOMAIN sa) \ {fname} |-> sa[n]]
                 /\ se' = se \ {fname}
            ELSE UNCHANGED <<sa, se>>
    /\ existing' = Tail(existing)
    /\ UNCHANGED <<restart, files, before, new_default, widx,
                   validatorCalls, res, restartCalls, rc, dpc, cfgVars, injVars, clsVars, rndVars, raceVars, rotVars>>

\* line 978: the listing is done, the write loop starts
StartWrites ==
    /\ dpc = "remove"
    /\ existing = <<>>
    /\ dpc' = "write_vs"
    /\ widx' = 1
    /\ UNCHANGED <<restart, files, sa, se, before, new_default, existing,
                   validatorCalls, res, restartCalls, rc, cfgVars, injVars, clsVars, rndVars, raceVars, rotVars>>

\* lines 978-985: one policy's unit written ("sudo tee") and linked ("ln -sf")
WriteSite ==
    /\ dpc = "write_vs"
    /\ widx <= Len(policies)
    /\ LET vsname == policies[widx].huntgroup
           content == render_vs(policies[widx].prefix, vsname)
       IN  \E written \in BOOLEAN :
            IF written
            THEN /\ sa' = [n \in (DOMAIN sa) \cup {vsname} |->
                                IF n = vsname THEN content ELSE sa[n]]
                 /\ se' = se \cup {vsname}
                 /\ widx' = widx + 1
                 /\ rc' = rc
                 /\ dpc' = dpc
            ELSE Return(2) /\ UNCHANGED <<sa, se, widx>>
    /\ UNCHANGED <<restart, files, before, new_default, existing,
                   validatorCalls, res, restartCalls, cfgVars, injVars, clsVars, rndVars, raceVars, rotVars>>

\* a variant that may run the check before the write loop is over
ValidateSitesAnyTime ==
    /\ dpc = "write_vs"
    /\ validatorCalls' = validatorCalls + 1
    /\ \E valid \in BOOLEAN :
        /\ res' = IF valid THEN "passed" ELSE "failed"
        /\ IF valid THEN AfterValid ELSE Return(1)
    /\ UNCHANGED <<restart, files, sa, se, before, new_default, existing, widx,
                   restartCalls, cfgVars, injVars, clsVars, rndVars, raceVars, rotVars>>

\* lines 988-992: the check in virtual-server mode; nothing is put back
ValidateSites ==
    /\ dpc = "write_vs"
    /\ widx > Len(policies)
    /\ validatorCalls' = validatorCalls + 1
    /\ \E valid \in BOOLEAN :
        /\ res' = IF valid THEN "passed" ELSE "failed"
        /\ IF valid THEN AfterValid ELSE Return(1)
    /\ UNCHANGED <<restart, files, sa, se, before, new_default, existing, widx,
                   restartCalls, cfgVars, injVars, clsVars, rndVars, raceVars, rotVars>>

DepNext ==
    \/ Precheck
    \/ DeployNormalize
    \/ ReadDefault
    \/ BackupHunt
    \/ BackupSite
    \/ WriteHunt
    \/ WriteDefault
    \/ ValidateHunt
    \/ RestoreHunt
    \/ RestoreDefault
    \/ Restart
    \/ ListSites
    \/ RemoveStale
    \/ StartWrites
    \/ WriteSite
    \/ ValidateSites

-----------------------------------------------------------------------------
(* The configurations and file trees import_freeradius_config is run on *)

NoSelectorPolicy ==
    RawPolicy(StrField(<<"x">>), AbsentField, AbsentSel, ListSel(<<>>), AbsentSel)

NoPrefixPolicy ==
    RawPolicy(AbsentField, AbsentField, ListSel(<<"10.20.0.0/16">>), AbsentSel, AbsentSel)

DottedPolicy ==
    RawPolicy(StrField(<<"a", ".">>), AbsentField, ScalarSel("10.0.0.0/8"),
              ListSel(<<"^ap-">>), AbsentSel)

\* a second prefix whose default label is the label of PlainPolicy
UnderscorePolicy ==
    RawPolicy(StrField(<<"a", "_">>), AbsentField, ListSel(<<"10.20.0.0/16">>),
              AbsentSel, AbsentSel)

DeployPolicies ==
    {PlainPolicy, DottedPolicy, UnderscorePolicy, NoSelectorPolicy, NoPrefixPolicy,
     NotADict}

DeployPolicyLists == UNION {[1..n -> DeployPolicies] : n \in 0..MaxPolicies}

DeployConfigs ==
    {Config(raw, e, <<<<"a", "-">>>>, m) :
        raw \in DeployPolicyLists \ {<<>>}, e \in {FALSE},
        m \in {"huntgroups", "virtual_server"}}
    \cup {Config(<<>>, e, ps, m) :
            e \in BOOLEAN, ps \in {<<>>, <<<<"a", "-">>, <<"x">>>>},
            m \in {"huntgroups", "virtual_server"}}

HuntOld == <<"# huntgroups", NL, "x", NL>>

\* sites-enabled/default: untouched, deployed to before, and with a stray
\* end marker above the begin marker
SiteFresh ==
    <<"server default", SP, OPEN, NL, AUTHORIZE, SP, OPEN, NL,
      SP, SP, SP, SP, "files", NL, CLOSE, NL, CLOSE, NL>>
SiteMarked ==
    <<AUTHORIZE, SP, OPEN, NL, PREPROCESS, NL, begin_marker, NL, "x", NL,
      end_marker, NL, CLOSE, NL>>
SiteStray == <<end_marker, NL, begin_marker, NL>>

SharedTrees ==
    {[hunt |-> h, site |-> s, hunt_bak |-> NoFile, site_bak |-> NoFile] :
        h \in {HuntOld, NoFile}, s \in {SiteFresh, SiteMarked, SiteStray, NoFile}}

OldUnit == render_vs(<<"o", "l", "d">>, <<"o", "l", "d">>)

\* sites-available before the run: empty; a unit of an earlier run and the
\* distribution's own default site; a unit under a label still in use
SiteTrees ==
    { [avail |-> <<>>, enabled |-> {}],
      [avail |-> (<<"o", "l", "d">> :> OldUnit)
                    @@ (<<"d", "e", "f", "a", "u", "l", "t">> :> <<"server default", NL>>),
       enabled |-> {<<"o", "l", "d">>, <<"d", "e", "f", "a", "u", "l", "t">>}],
      [avail |-> (<<"a", "d", "e", "v", "s">> :> OldUnit),
       enabled |-> {}] }

DepInit ==
    /\ cfg \in DeployConfigs
    /\ policies = <<>>
    /\ npc = "start"
    /\ restart \in BOOLEAN
    /\ \E tree \in SharedTrees, sites \in SiteTrees :
        /\ IF cfg.RADIUS_FR_MODE = "huntgroups"
           THEN sites = [avail |-> <<>>, enabled |-> {}]
           ELSE tree = [hunt |-> HuntOld, site |-> SiteFresh,
                        hunt_bak |-> NoFile, site_bak |-> NoFile]
        /\ files = tree
        /\ sa = sites.avail
        /\ se = sites.enabled
        /\ before = [files |-> tree, sa |-> sites.avail, se |-> sites.enabled]
    /\ new_default = NotYet
    /\ existing = <<>>
    /\ widx = 0
    /\ validatorCalls = 0
    /\ res = "unset"
    /\ restartCalls = 0
    /\ rc = -1
    /\ dpc = "start"

\* import_freeradius_config is not run
DepIdle ==
    /\ restart = FALSE
    /\ files = [hunt |-> NoFile, site |-> NoFile, hunt_bak |-> NoFile, site_bak |-> NoFile]
    /\ sa = <<>>
    /\ se = {}
    /\ before = [files |-> files, sa |-> <<>>, se |-> {}]
    /\ new_default = NotYet
    /\ existing = <<>>
    /\ widx = 0
    /\ validatorCalls = 0
    /\ res = "unset"
    /\ restartCalls = 0
    /\ rc = -1
    /\ dpc = "idle"

-----------------------------------------------------------------------------
(* assign_nas_servers: the classification of the devices of the nas table *)

\* ipaddress.ip_address(s) of the device addresses in use; a host name is
\* no address
ParseAddress(s) ==
    CASE s = "10.0.0.5"    -> [ok |-> TRUE, octets |-> <<10, 0, 0, 5>>]
      [] s = "192.168.1.7" -> [ok |-> TRUE, octets |-> <<192, 168, 1, 7>>]
      [] OTHER             -> [ok |-> FALSE, octets |-> <<>>]

\* re.compile of the identifier patterns in use: a literal, anchored at the
\* start or not; "(" does not compile
ParseRegex(rx) ==
    CASE rx = "^ap-" -> [ok |-> TRUE, anchored |-> TRUE, lit |-> <<"a", "p", "-">>]
      [] rx = "core" -> [ok |-> TRUE, anchored |-> FALSE, lit |-> <<"c", "o", "r", "e">>]
      [] rx = ""     -> [ok |-> TRUE, anchored |-> FALSE, lit |-> <<>>]
      [] OTHER       -> [ok |-> FALSE, anchored |-> FALSE, lit |-> <<>>]

\* re.search(rx, sn); a pattern that does not compile raises
Search(rx, sn) ==
    LET r == ParseRegex(rx) IN
    /\ r.ok
    /\ \E i \in 1..(Len(sn) + 1) :
        /\ r.anchored => i = 1
        /\ i + Len(r.lit) - 1 <= Len(sn)
        /\ \A j \in 1..Len(r.lit) : sn[i + j - 1] = r.lit[j]

\* ipaddr in ipaddress.ip_network(net, strict=False); a text that is no
\* network raises, a network of the other family holds no IPv4 address
InNetwork(octets, net) ==
    LET n == ParseNetwork(net) IN
    /\ n.kind = "v4"
    /\ NetworkAddress(V4(octets, n.len)) = NetworkAddress(n)

\* pol.get(key, []) or [], of a selector that is a list or absent
SelectorItems(f) == IF f.kind = "list" THEN f.items ELSE <<>>

\* lines 1383-1394
ip_in_policy(ip, pol) ==
    LET a == ParseAddress(ip) IN
    /\ a.ok
    /\ \E i \in 1..Len(SelectorItems(pol.cidrs)) :
            InNetwork(a.octets, SelectorItems(pol.cidrs)[i])

\* lines 1395-1402
shortname_match(sn, pol) ==
    \E i \in 1..Len(SelectorItems(pol.nas_identifier_regex)) :
        Search(SelectorItems(pol.nas_identifier_regex)[i], sn)

\* line 1406
Matches(r, pol) == ip_in_policy(r.nasname, pol) \/ shortname_match(r.shortname, pol)

\* lines 1254-1256: the menu works on the raw policies of the configuration
MenuPolicies(c) == c.RADIUS_ACCESS_POLICIES

\* lines 1405-1408: the index of the first policy that matches, from i on
\* (0: none)
RECURSIVE FirstMatch(_, _, _)
FirstMatch(ps, r, i) ==
    IF i > Len(ps) THEN 0
    ELSE IF Matches(r, ps[i]) THEN i
    ELSE FirstMatch(ps, r, i + 1)

\* lines 1404-1408: target, None when no policy matches or the policy has
\* no "huntgroup" key
Target(ps, r) ==
    LET k == FirstMatch(ps, r, 1) IN
    IF k = 0 THEN AbsentField ELSE ps[k].huntgroup

\* line 1409: if target and r.get("server") != target
Truthy(f) == f.kind = "str" /\ f.val # <<>>

\* a variant that writes every label it computed, changed or not
NeedsUpdateAlways(ps, r) == Truthy(Target(ps, r))

NeedsUpdate(ps, r) == Truthy(Target(ps, r)) /\ r.server # Target(ps, r)

\* lines 1411-1412: UPDATE nas SET server=%s WHERE id=%s, the id of a row
\* being its place in the table
UpdateStmt(i, target) == [id |-> i, column |-> "server", value |-> target]

\* the statements of the rows in todo, in row order
RECURSIVE Statements(_, _, _)
Statements(ps, rows, todo) ==
    IF rows = <<>> THEN <<>>
    ELSE Statements(ps, SubSeq(rows, 1, Len(rows) - 1), todo)
            \o (IF Len(rows) \in todo
                THEN <<UpdateStmt(Len(rows), Target(ps, rows[Len(rows)]))>>
                ELSE <<>>)

\* lines 1365-1367: any mode but virtual_server returns at once
AssignSkipped ==
    /\ cpc = "start"
    /\ cfg.RADIUS_FR_MODE # "virtual_server"
    /\ cpc' = "done"
    /\ UNCHANGED <<nas, nas0, conn, updated, writes, cfgVars, injVars, depVars, rndVars, raceVars, rotVars>>

\* lines 1368-1377: the database refuses the connection
AssignNoConnection ==
    /\ cpc = "start"
    /\ cfg.RADIUS_FR_MODE = "virtual_server"
    /\ conn' = "refused"
    /\ cpc' = "done"
    /\ UNCHANGED <<nas, nas0, updated, writes, cfgVars, injVars, depVars, rndVars, raceVars, rotVars>>

\* lines 1378-1419: every row classified, an UPDATE sent for the rows that
\* need it, the transaction committed.  An UPDATE the database refuses
\* (lines 1413-1414) changes nothing and is not counted.
AssignNasServers ==
    /\ cpc = "start"
    /\ cfg.RADIUS_FR_MODE = "virtual_server"
    /\ conn' = "ok"
    /\ \E refused \in SUBSET {i \in 1..Len(nas) : NeedsUpdate(MenuPolicies(cfg), nas[i])} :
        LET done == {i \in 1..Len(nas) : NeedsUpdate(MenuPolicies(cfg), nas[i])} \ refused IN
        /\ nas' = [i \in 1..Len(nas) |->
                    IF i \in done
                    THEN [nas[i] EXCEPT !.server = Target(MenuPolicies(cfg), nas[i])]
                    ELSE nas[i]]
        /\ writes' = Statements(MenuPolicies(cfg), nas, done)
        /\ updated' = Cardinality(done)
    /\ cpc' = "done"
    /\ UNCHANGED <<nas0, cfgVars, injVars, depVars, rndVars, raceVars, rotVars>>

ClsNext == AssignSkipped \/ AssignNoConnection \/ AssignNasServers

-----------------------------------------------------------------------------
(* The policies and devices assign_nas_servers is run on *)

WidePolicy ==
    RawPolicy(StrField(<<"b", "-">>), StrField(<<"b", "d", "e", "v", "s">>),
              ListSel(<<"10.0.0.0/8">>), ListSel(<<"^ap-">>), AbsentSel)

\* an entry that leaves the label to the default
UnlabelledPolicy ==
    RawPolicy(StrField(<<"c", "-">>), AbsentField,
              ListSel(<<"192.168.1.7/32">>), ListSel(<<"core">>), AbsentSel)

\* selectors that never match a device: another family, no network, no pattern
OddPolicy ==
    RawPolicy(StrField(<<"d", "-">>), StrField(<<"d", "d", "e", "v", "s">>),
              ListSel(<<"fe80::/64", "junk">>), ListSel(<<"(">>), AbsentSel)

\* a label typed with a blank in it, stored as typed (lines 1301-1310)
SpacedPolicy ==
    RawPolicy(StrField(<<"e", "-">>), StrField(<<"e", " ", "x">>),
              ListSel(<<"192.168.1.7/32">>), AbsentSel, AbsentSel)

ClassifyPolicies == {PlainPolicy, WidePolicy, UnlabelledPolicy, OddPolicy, SpacedPolicy}

ClassifyPolicyLists == UNION {[1..n -> ClassifyPolicies] : n \in 0..MaxPolicies}

NasRows ==
    [nasname : {"10.0.0.5", "192.168.1.7", "nas.example"},
     shortname : {<<"a", "p", "-", "1">>, <<"c", "o", "r", "e">>},
     server : {AbsentField, StrField(<<"a", "d", "e", "v", "s">>)}]

NasTables == UNION {[1..n -> NasRows] : n \in 1..MaxDevices}

ClsInit ==
    /\ cfg \in {Config(raw, FALSE, <<<<"a", "-">>>>, m) :
                    raw \in ClassifyPolicyLists, m \in {"huntgroups", "virtual_server"}}
    /\ policies = <<>>
    /\ npc = "idle"
    /\ nas \in NasTables
    /\ nas0 = nas
    /\ conn = "none"
    /\ updated = 0
    /\ writes = <<>>
    /\ cpc = "start"

\* assign_nas_servers is not run
ClsIdle ==
    /\ nas = <<>>
    /\ nas0 = <<>>
    /\ conn = "none"
    /\ updated = 0
    /\ writes = <<>>
    /\ cpc = "idle"

-----------------------------------------------------------------------------
(* The renderings of one policy list: render_huntgroups_text,              *)
(* render_unlang_authorize_text and render_vs, as export_freeradius_config *)
(* and import_freeradius_config call them                                  *)

NotRendered == [at |-> "never", hunt |-> <<>>, gate |-> <<>>, units |-> <<>>]

\* lines 733-734 and 780-782 (890-891 and 978-980): the three texts of the
\* policy list ps, rendered when the clock reads at
Rendered(ps, at) ==
    [at |-> at,
     hunt |-> render_huntgroups_text(ps, at),
     gate |-> render_unlang_authorize_text(ps),
     units |-> [i \in 1..Len(ps) |-> render_vs(ps[i].prefix, ps[i].huntgroup)]]

\* the clock, to the second (line 671), at two moments
Times == <<"2025-01-01 12:00:00", "2025-01-01 12:00:01">>

RenderFirst ==
    /\ rpc = "start"
    /\ \E k \in 1..Len(Times) : first' = Rendered(policies, Times[k])
    /\ rpc' = "once"
    /\ UNCHANGED <<second, cfgVars, injVars, depVars, clsVars, raceVars, rotVars>>

\* the same list rendered again, at the same second or later
RenderAgain ==
    /\ rpc = "once"
    /\ \E k \in 1..Len(Times) :
        /\ \E j \in 1..k : first.at = Times[j]
        /\ second' = Rendered(policies, Times[k])
    /\ rpc' = "twice"
    /\ UNCHANGED <<first, cfgVars, injVars, depVars, clsVars, raceVars, rotVars>>

RndNext == RenderFirst \/ RenderAgain

\* the characters of the prefixes rendered
GateChars == {"a", "b", ".", "+", "/"}

GatePrefixes == UNION {[1..n -> GateChars] : n \in 1..MaxStr}

RenderNets ==
    {"192.168.1.7/32", "10.0.0.0/24", "10.0.0.5/24", "10.20.0.0/16", "10.0.0.0/8",
     "10.0.0.128/25", "fe80::/64", "junk"}

\* a normalized policy (lines 660-666) with one network selector
RenderPolicy(pref, net) ==
    [prefix |-> pref, huntgroup |-> default_huntgroup_for_prefix(pref),
     cidrs |-> <<net>>, nas_identifier_regex |-> <<>>, called_station_regex |-> <<>>]

RenderInputs ==
    {<<RenderPolicy(pref, net)>> : pref \in GatePrefixes, net \in RenderNets}
        \cup {<<RenderPolicy(pref, net), NormalizedEntry(WidePolicy)>> :
                pref \in GatePrefixes, net \in RenderNets}

RndInit ==
    /\ cfg = Config(<<>>, FALSE, <<>>, "virtual_server")
    /\ policies \in RenderInputs
    /\ npc = "done"
    /\ first = NotRendered
    /\ second = NotRendered
    /\ rpc = "start"

\* nothing is rendered
RndIdle ==
    /\ first = NotRendered
    /\ second = NotRendered
    /\ rpc = "idle"

-----------------------------------------------------------------------------
(* Two runs of import_freeradius_config in group-membership mode on the    *)
(* same two files, their steps (lines 889-922) interleaved                 *)

Procs == {1, 2}

\* line 895: the time stamp of the backup names, one per second
Stamps == <<"20250101120000", "20250101120001">>

\* the policies each run deploys
RacePolicies(p) ==
    IF p = 1 THEN <<NormalizedEntry(PlainPolicy)>> ELSE <<NormalizedEntry(WidePolicy)>>

NoBackup == [hunt |-> NoFile, site |-> NoFile]

Other(p) == CHOOSE q \in Procs : q # p

\* between the first backup and the end of the check
InWindow(pc) == pc \in {"backup_site", "write_hunt", "write_site", "validate"}

\* procs with run p moved on, and the record of an overlap kept
Advance(p, rec) ==
    /\ procs' = [procs EXCEPT ![p] = rec]
    /\ overlapped' = (overlapped \/ (InWindow(rec.pc) /\ InWindow(procs[Other(p)].pc)))

\* lines 899-903
RaceRead(p) ==
    /\ procs[p].pc = "read"
    /\ LET nd == inject_authorize_block(rfiles.site,
                    render_unlang_authorize_text(RacePolicies(p)))
       IN  Advance(p, [procs[p] EXCEPT !.new_default = nd.text,
                                        !.pc = IF nd.ok THEN "backup_hunt" ELSE "raised"])
    /\ UNCHANGED <<rfiles, rbaks, cfgVars, injVars, depVars, clsVars, rndVars, rotVars>>

\* line 905
RaceBackupHunt(p) ==
    /\ procs[p].pc = "backup_hunt"
    /\ rbaks' = [rbaks EXCEPT ![procs[p].ts].hunt = rfiles.hunt]
    /\ Advance(p, [procs[p] EXCEPT !.pc = "backup_site"])
    /\ UNCHANGED <<rfiles, cfgVars, injVars, depVars, clsVars, rndVars, rotVars>>

\* line 906
RaceBackupSite(p) ==
    /\ procs[p].pc = "backup_site"
    /\ rbaks' = [rbaks EXCEPT ![procs[p].ts].site = rfiles.site]
    /\ Advance(p, [procs[p] EXCEPT !.pc = "write_hunt"])
    /\ UNCHANGED <<rfiles, cfgVars, injVars, depVars, clsVars, rndVars, rotVars>>

\* lines 908-910
RaceWriteHunt(p) ==
    /\ procs[p].pc = "write_hunt"
    /\ rfiles' = [rfiles EXCEPT !.hunt =
                    render_huntgroups_text(RacePolicies(p), procs[p].at)]
    /\ Advance(p, [procs[p] EXCEPT !.pc = "write_site"])
    /\ UNCHANGED <<rbaks, cfgVars, injVars, depVars, clsVars, rndVars, rotVars>>

\* lines 911-913
RaceWriteDefault(p) ==
    /\ procs[p].pc = "write_site"
    /\ rfiles' = [rfiles EXCEPT !.site = procs[p].new_default]
    /\ Advance(p, [procs[p] EXCEPT !.pc = "validate"])
    /\ UNCHANGED <<rbaks, cfgVars, injVars, depVars, clsVars, rndVars, rotVars>>

\* lines 916-919 and 924-934, no restart asked for
RaceValidate(p) ==
    /\ procs[p].pc = "validate"
    /\ \E valid \in BOOLEAN :
        Advance(p, IF valid
                   THEN [procs[p] EXCEPT !.res = "passed", !.rc = 0, !.pc = "done"]
                   ELSE [procs[p] EXCEPT !.res = "failed", !.pc = "restore_hunt"])
    /\ UNCHANGED <<rfiles, rbaks, cfgVars, injVars, depVars, clsVars, rndVars, rotVars>>

\* a variant that puts back what the file held before either run started
RaceRestoreHuntOriginal(p) ==
    /\ procs[p].pc = "restore_hunt"
    /\ rfiles' = [rfiles EXCEPT !.hunt = HuntOld]
    /\ Advance(p, [procs[p] EXCEPT !.pc = "restore_site"])
    /\ UNCHANGED <<rbaks, cfgVars, injVars, depVars, clsVars, rndVars, rotVars>>

\* line 920
RaceRestoreHunt(p) ==
    /\ procs[p].pc = "restore_hunt"
    /\ rfiles' = [rfiles EXCEPT !.hunt = rbaks[procs[p].ts].hunt]
    /\ Advance(p, [procs[p] EXCEPT !.pc = "restore_site"])
    /\ UNCHANGED <<rbaks, cfgVars, injVars, depVars, clsVars, rndVars, rotVars>>

\* lines 921-922
RaceRestoreDefault(p) ==
    /\ procs[p].pc = "restore_site"
    /\ rfiles' = [rfiles EXCEPT !.site = rbaks[procs[p].ts].site]
    /\ Advance(p, [procs[p] EXCEPT !.rc = 1, !.pc = "done"])
    /\ UNCHANGED <<rbaks, cfgVars, injVars, depVars, clsVars, rndVars, rotVars>>

\* the next step of run p
RaceStep(p) ==
    \/ RaceRead(p)
    \/ RaceBackupHunt(p)
    \/ RaceBackupSite(p)
    \/ RaceWriteHunt(p)
    \/ RaceWriteDefault(p)
    \/ RaceValidate(p)
    \/ RaceRestoreHunt(p)
    \/ RaceRestoreDefault(p)

RaceNext == \E p \in Procs : RaceStep(p)

\* the two runs start together or a second apart, on files no run has touched
\* or on files of an earlier deployment
RaceInit ==
    /\ rfiles \in {[hunt |-> HuntOld, site |-> s] : s \in {SiteFresh, SiteMarked}}
    /\ rbaks = [s \in {Stamps[k] : k \in 1..Len(Stamps)} |-> NoBackup]
    /\ \E k1, k2 \in 1..Len(Stamps) :
        procs = [p \in Procs |->
                    [pc |-> "read",
                     ts |-> Stamps[IF p = 1 THEN k1 ELSE k2],
                     at |-> Times[IF p = 1 THEN k1 ELSE k2],
                     new_default |-> <<>>, res |-> "unset", rc |-> -1]]
    /\ overlapped = FALSE

\* no two runs are under way
RaceIdle ==
    /\ rfiles = NoBackup
    /\ rbaks = <<>>
    /\ procs = <<>>
    /\ overlapped = FALSE

-----------------------------------------------------------------------------
(* main: the rotation of the passwords, run after run (lines 1519-1575) *)
(*                                                                         *)
(* The stored accounts are the rows of radcheck that carry a               *)
(* Cleartext-Password, as a function from the username to the password.    *)
(* A password is the number of the call of random_password that made it:   *)
(* two calls never make the same 64 characters.                            *)

\* str.startswith and str.endswith
HasPrefix(s, p) == Len(p) <= Len(s) /\ SubSeq(s, 1, Len(p)) = p
HasSuffix(s, p) == Len(p) <= Len(s) /\ SubSeq(s, Len(s) - Len(p) + 1, Len(s)) = p

\* lines 473-482, the random tail given
random_username(c, prefix, tail) ==
    IF ~c.USE_PREFIX THEN tail
    ELSE IF c.PREFIX_POSITION = "end" THEN tail \o prefix
    ELSE prefix \o tail

\* lines 596-603
matches_prefix(c, username, prefix) ==
    /\ c.USE_PREFIX
    /\ IF c.PREFIX_POSITION = "end" THEN HasSuffix(username, prefix)
       ELSE HasPrefix(username, prefix)

\* lines 1004-1015
list_usernames_by_prefix_from_password(c, table, prefix) ==
    Listing({u \in DOMAIN table : matches_prefix(c, u, prefix)})

\* lines 1519-1525
iter_prefixes(c) ==
    IF c.USE_PREFIX THEN c.PREFIXES
    ELSE IF c.PREFIXES # <<>> THEN c.PREFIXES ELSE << <<>> >>

\* max(1, COUNT_PER_PREFIX), lines 1555-1560
PerPrefix(c) == IF c.COUNT_PER_PREFIX > 1 THEN c.COUNT_PER_PREFIX ELSE 1

\* the two statements that write a password
PasswordInsert(u, v) == [op |-> "INSERT", username |-> u, value |-> v]
PasswordUpdate(u, v) == [op |-> "UPDATE", username |-> u, value |-> v]

\* what the database does with a statement
Execute(table, st) ==
    IF st.op = "INSERT" THEN (st.username :> st.value) @@ table
    ELSE [u \in DOMAIN table |-> IF u = st.username THEN st.value ELSE table[u]]

\* a variant that sends the statement whatever the flag says
db_execute_always(dry, db, st) ==
    [table |-> Execute(db.table, st), sent |-> Append(db.sent, st)]

\* lines 517-525: with DRY_RUN the statement is printed and not sent
db_execute(dry, db, st) ==
    IF dry THEN db
    ELSE [table |-> Execute(db.table, st), sent |-> Append(db.sent, st)]

\* lines 1017-1038: the SELECT is sent in a dry run too
set_user_password(dry, db, u, pw) ==
    IF u \in DOMAIN db.table
    THEN db_execute(dry, db, PasswordUpdate(u, pw))
    ELSE db_execute(dry, db, PasswordInsert(u, pw))

\* lines 531-586, the username and the password given: the row of radcheck;
\* the rows of radusergroup and userinfo hold no password
create_user(dry, db, u, pw) == db_execute(dry, db, PasswordInsert(u, pw))

\* the open transaction
Db == [table |-> tx, sent |-> sent]

\* the record of a run that ends now, radcheck being left as table
RunRecord(out, table) ==
    [before |-> radcheck, after |-> table, created |-> created, rotated |-> rotated,
     raised |-> raised, sent |-> sent, dry |-> rotcfg.dry, outcome |-> out]

\* the run ends: sys.exit or the summary of lines 1577-1591
EndRun(out, table) ==
    /\ outcome' = out
    /\ radcheck' = table
    /\ tx' = table
    /\ runs' = Append(runs, RunRecord(out, table))
    /\ rotpc' = "done"

\* an exception leaves the "with" block for the handler of line 1570
Raise ==
    /\ raised' = raised \cup {"error"}
    /\ rotpc' = "raised"

\* lines 1519-1541: the prefixes are looked at and the connection is made
RotConnect ==
    /\ rotpc = "start"
    /\ IF rotcfg.USE_PREFIX /\ rotcfg.PREFIXES = <<>>
       THEN EndRun("no prefix", radcheck)
       ELSE \E connected \in BOOLEAN :
                IF connected
                THEN /\ tx' = radcheck
                     /\ rotpc' = "loop"
                     /\ UNCHANGED <<radcheck, outcome, runs>>
                ELSE EndRun("no connection", radcheck)
    /\ UNCHANGED <<rotcfg, sent, pidx, pending, tocreate, created, rotated, raised, npw,
                   cfgVars, injVars, depVars, clsVars, rndVars, raceVars>>

\* lines 1548-1560: the next prefix, its accounts listed and the number of
\* accounts to create for it worked out
RotList ==
    /\ rotpc = "loop"
    /\ pending = <<>>
    /\ tocreate = 0
    /\ pidx < Len(iter_prefixes(rotcfg))
    /\ \E fails \in BOOLEAN :
        IF fails
        THEN Raise /\ UNCHANGED <<pidx, pending, tocreate>>
        ELSE LET pref == iter_prefixes(rotcfg)[pidx + 1]
                 found == list_usernames_by_prefix_from_password(rotcfg, tx, pref)
             IN  /\ pidx' = pidx + 1
                 /\ pending' = found
                 /\ tocreate' = IF found = <<>> THEN PerPrefix(rotcfg)
                                ELSE IF Len(found) < PerPrefix(rotcfg)
                                     THEN PerPrefix(rotcfg) - Len(found)
                                     ELSE 0
                 /\ UNCHANGED <<raised, rotpc>>
    /\ UNCHANGED <<rotcfg, radcheck, tx, sent, created, rotated, npw, outcome, runs,
                   cfgVars, injVars, depVars, clsVars, rndVars, raceVars>>

\* lines 1551-1553: the next account of the listing gets a new password
RotSetPassword ==
    /\ rotpc = "loop"
    /\ pending # <<>>
    /\ \E fails \in BOOLEAN :
        IF fails
        THEN Raise /\ UNCHANGED <<tx, sent, pending, rotated, npw>>
        ELSE LET db == set_user_password(rotcfg.dry, Db, Head(pending), npw + 1)
             IN  /\ tx' = db.table
                 /\ sent' = db.sent
                 /\ rotated' = Append(rotated,
                                <<iter_prefixes(rotcfg)[pidx], Head(pending), npw + 1>>)
                 /\ pending' = Tail(pending)
                 /\ npw' = npw + 1
                 /\ UNCHANGED <<raised, rotpc>>
    /\ UNCHANGED <<rotcfg, radcheck, pidx, tocreate, created, outcome, runs,
                   cfgVars, injVars, depVars, clsVars, rndVars, raceVars>>

\* the tails random_username draws: one that begins like no prefix, one that
\* begins with the letter a longer prefix goes on with
Tails == {<<"1", "x">>, <<"b", "x">>}

\* lines 1557-1558 and 1561-1562: one account created.  A username in use is
\* drawn again, and with no free one left create_user raises (lines 533-538);
\* the statements on userinfo may raise a ProgrammingError, which create_user
\* catches (lines 583-585)
RotCreate ==
    /\ rotpc = "loop"
    /\ pending = <<>>
    /\ tocreate > 0
    /\ LET pref == iter_prefixes(rotcfg)[pidx]
           free == {tail \in Tails : random_username(rotcfg, pref, tail) \notin DOMAIN tx}
       IN  \E how \in {"done", "userinfo raised", "raised"} :
            IF how = "raised" \/ free = {}
            THEN Raise /\ UNCHANGED <<tx, sent, tocreate, created, npw>>
            ELSE \E tail \in free :
                    LET u  == random_username(rotcfg, pref, tail)
                        db == create_user(rotcfg.dry, Db, u, npw + 1)
                    IN  /\ tx' = db.table
                        /\ sent' = db.sent
                        /\ created' = Append(created, <<pref, u, npw + 1>>)
                        /\ tocreate' = tocreate - 1
                        /\ npw' = npw + 1
                        /\ raised' = IF how = "userinfo raised"
                                     THEN raised \cup {"ProgrammingError"} ELSE raised
                        /\ rotpc' = rotpc
    /\ UNCHANGED <<rotcfg, radcheck, pidx, pending, rotated, outcome, runs,
                   cfgVars, injVars, depVars, clsVars, rndVars, raceVars>>

\* lines 1564-1568: after the last prefix, rollback in a dry run, else commit
RotFinish ==
    /\ rotpc = "loop"
    /\ pending = <<>>
    /\ tocreate = 0
    /\ pidx = Len(iter_prefixes(rotcfg))
    /\ IF rotcfg.dry
       THEN EndRun("dry rollback", radcheck) /\ raised' = raised
       ELSE \E committed \in BOOLEAN :
                IF committed
                THEN EndRun("committed", tx) /\ raised' = raised
                ELSE Raise /\ UNCHANGED <<radcheck, tx, outcome, runs>>
    /\ UNCHANGED <<rotcfg, sent, pidx, pending, tocreate, created, rotated, npw,
                   cfgVars, injVars, depVars, clsVars, rndVars, raceVars>>

\* a variant whose handler keeps what the transaction wrote
RotRollbackKeeps ==
    /\ rotpc = "raised"
    /\ EndRun("rolled back", tx)
    /\ UNCHANGED <<rotcfg, sent, pidx, pending, tocreate, created, rotated, raised, npw,
                   cfgVars, injVars, depVars, clsVars, rndVars, raceVars>>

\* lines 1570-1573: conn.rollback() and sys.exit(1)
RotRollback ==
    /\ rotpc = "raised"
    /\ EndRun("rolled back", radcheck)
    /\ UNCHANGED <<rotcfg, sent, pidx, pending, tocreate, created, rotated, raised, npw,
                   cfgVars, injVars, depVars, clsVars, rndVars, raceVars>>

\* the program is started again, the configuration unchanged, "-n" given or not
RotAgain ==
    /\ rotpc = "done"
    /\ Len(runs) < MaxRuns
    /\ \E dry \in BOOLEAN : rotcfg' = [rotcfg EXCEPT !.dry = dry]
    /\ sent' = <<>>
    /\ pidx' = 0
    /\ pending' = <<>>
    /\ tocreate' = 0
    /\ created' = <<>>
    /\ rotated' = <<>>
    /\ raised' = {}
    /\ outcome' = "none"
    /\ rotpc' = "start"
    /\ UNCHANGED <<radcheck, tx, npw, runs,
                   cfgVars, injVars, depVars, clsVars, rndVars, raceVars>>

RotNext ==
    \/ RotConnect
    \/ RotList
    \/ RotSetPassword
    \/ RotCreate
    \/ RotFinish
    \/ RotRollback
    \/ RotAgain

\* one prefix, two prefixes that share nothing, and two prefixes of which one
\* begins with the other, in both orders
RotPrefixLists ==
    { <<>>,
      << <<"a", "-">> >>,
      << <<"a", "-">>, <<"c", "-">> >>,
      << <<"a", "-">>, <<"a", "-", "b">> >>,
      << <<"a", "-", "b">>, <<"a", "-">> >> }

\* the prefix is put in front of the tail, behind it, or not used
RotConfigs ==
    {c \in [PREFIXES : RotPrefixLists, COUNT_PER_PREFIX : 1..MaxCount,
            USE_PREFIX : BOOLEAN, PREFIX_POSITION : {"start", "end"}, dry : BOOLEAN] :
        c.USE_PREFIX \/ c.PREFIX_POSITION = "start"}

\* radcheck before the first run: empty, or two accounts of another tool,
\* one of them under a configured prefix
RotInit ==
    /\ rotcfg \in RotConfigs
    /\ radcheck \in {<<>>, (<<"z", "9">> :> 0) @@ (<<"a", "-", "9">> :> 0)}
    /\ tx = radcheck
    /\ sent = <<>>
    /\ pidx = 0
    /\ pending = <<>>
    /\ tocreate = 0
    /\ created = <<>>
    /\ rotated = <<>>
    /\ raised = {}
    /\ npw = 0
    /\ outcome = "none"
    /\ runs = <<>>
    /\ rotpc = "start"

\* main is not run
RotIdle ==
    /\ rotcfg = [PREFIXES |-> <<>>, COUNT_PER_PREFIX |-> 1, USE_PREFIX |-> TRUE,
                 PREFIX_POSITION |-> "start", dry |-> FALSE]
    /\ radcheck = <<>>
    /\ tx = <<>>
    /\ sent = <<>>
    /\ pidx = 0
    /\ pending = <<>>
    /\ tocreate = 0
    /\ created = <<>>
    /\ rotated = <<>>
    /\ raised = {}
    /\ npw = 0
    /\ outcome = "none"
    /\ runs = <<>>
    /\ rotpc = "idle"

-----------------------------------------------------------------------------
(* Specifications: one per component, the other components idle *)

InitInject == InjInit /\ CfgIdle /\ DepIdle /\ ClsIdle /\ RndIdle /\ RaceIdle /\ RotIdle
SpecInject == InitInject /\ [][InjNext]_vars

InitNormalize == NormInit /\ InjIdle /\ DepIdle /\ ClsIdle /\ RndIdle /\ RaceIdle /\ RotIdle
SpecNormalize == InitNormalize /\ [][NormNext]_vars

InitDeploy == DepInit /\ InjIdle /\ ClsIdle /\ RndIdle /\ RaceIdle /\ RotIdle
SpecDeploy == InitDeploy /\ [][DepNext]_vars

InitClassify == ClsInit /\ InjIdle /\ DepIdle /\ RndIdle /\ RaceIdle /\ RotIdle
SpecClassify == InitClassify /\ [][ClsNext]_vars

InitRender == RndInit /\ InjIdle /\ DepIdle /\ ClsIdle /\ RaceIdle /\ RotIdle
SpecRender == InitRender /\ [][RndNext]_vars

InitRace == RaceInit /\ CfgIdle /\ InjIdle /\ DepIdle /\ ClsIdle /\ RndIdle /\ RotIdle
SpecRace == InitRace /\ [][RaceNext]_vars

InitRotate == RotInit /\ CfgIdle /\ InjIdle /\ DepIdle /\ ClsIdle /\ RndIdle /\ RaceIdle
SpecRotate == InitRotate /\ [][RotNext]_vars

-----------------------------------------------------------------------------
(* Properties of the injector *)

\* C1: injecting the same snippet again into the injector's own output gives
\* back that output, token for token, whichever path the first run took.
C1_InjectIdempotent ==
    ipc = "twice" => reinjected = injected

\* the lines a block insertion adds keep every original line around them:
\* r is lines with some lines put in directly before line number end
KeepsLinesAround(r, lines, end) ==
    LET k == Len(r) - Len(lines)
    IN  /\ k >= 2
        /\ SubSeq(r, 1, end - 1) = SubSeq(lines, 1, end - 1)
        /\ SubSeq(r, end + k, Len(r)) = SubSeq(lines, end, Len(lines))
        /\ \E i, j \in end..(end + k - 1) :
                /\ i < j
                /\ Strip(r[i]) = <<begin_marker>>
                /\ Strip(r[j]) = <<end_marker>>

\* C3: when the authorize block is found (no marker pair), every line of the
\* original text is in the result, unchanged and in order, the block's body
\* included, and the marked snippet sits directly before the closing line.
C3_BlockInsertKeepsEveryLine ==
    (ipc # "start" /\ InjectPath(original) = "block") =>
        LET lines == SplitLines(original)
            end   == FindClose(lines, FindAuthorize(lines))
        IN  /\ injected.ok
            /\ KeepsLinesAround(SplitLines(injected.text), lines, end)

\* C4: an insertion into a found authorize block ends with a line break
\* exactly when the original text did.
C4_BlockInsertKeepsFinalNewline ==
    (ipc # "start" /\ InjectPath(original) = "block") =>
        (EndsWith(injected.text, NL) <=> EndsWith(original, NL))

BeginThenEnd(t) ==
    \E i, j \in 1..Len(t) : i < j /\ t[i] = begin_marker /\ t[j] = end_marker

\* C5: when a begin marker is followed later by an end marker, the result is
\* the text before the first begin marker, the begin marker and its line
\* break, the new snippet verbatim, the end marker, and the text after the
\* first end marker that follows; nothing outside the region changes.
C5_MarkedRegionReplaced ==
    (ipc # "start" /\ BeginThenEnd(original)) =>
        \E b, e \in 1..Len(original) :
            /\ b < e
            /\ original[b] = begin_marker
            /\ \A k \in 1..(b-1) : original[k] # begin_marker
            /\ original[e] = end_marker
            /\ \A k \in (b+1)..(e-1) : original[k] # end_marker
            /\ injected = Returned(SubSeq(original, 1, b - 1)
                                    \o <<begin_marker, NL>> \o snippet \o <<end_marker>>
                                    \o SubSeq(original, e + 1, Len(original)))

\* a text with text before the begin marker, an old region between the
\* markers and text after the end marker, injected once
C5_Witness ==
    /\ ipc = "once"
    /\ BeginThenEnd(original)
    /\ original[1] # begin_marker
    /\ ~EndsWith(original, end_marker)
    /\ original[IndexOf(original, begin_marker) + 2] = "x"
    /\ IndexOf(original, end_marker) > IndexOf(original, begin_marker)
    /\ injected.ok

-----------------------------------------------------------------------------
(* Properties of the normalizer *)

\* C8: with no raw policy and enforcement on, normalize_policies returns one
\* policy per fallback prefix, in prefix order, each with the one placeholder
\* network 0.0.0.0/32 and no identifier or called-station pattern; none is
\* left without a selector.
C8_SynthesizedPerPrefix ==
    (npc = "done" /\ cfg.RADIUS_ACCESS_POLICIES = <<>>
        /\ cfg.RADIUS_ENFORCE_PREFIX_ACCESS) =>
        /\ Len(policies) = Len(cfg.RADIUS_PREFIXES)
        /\ \A i \in 1..Len(policies) :
            /\ policies[i].prefix = cfg.RADIUS_PREFIXES[i]
            /\ policies[i].cidrs = <<"0.0.0.0/32">>
            /\ policies[i].nas_identifier_regex = <<>>
            /\ policies[i].called_station_regex = <<>>

\* two different fallback prefixes, normalized with enforcement on
C8_Witness ==
    /\ npc = "done"
    /\ cfg.RADIUS_ACCESS_POLICIES = <<>>
    /\ cfg.RADIUS_ENFORCE_PREFIX_ACCESS
    /\ Len(cfg.RADIUS_PREFIXES) = 2
    /\ cfg.RADIUS_PREFIXES[1] # cfg.RADIUS_PREFIXES[2]
    /\ Len(policies) = 2

\* the characters of [A-Za-z0-9._-]
LabelAlphabet == AsciiLetters \cup AsciiDigits \cup AllowedPunct

\* C9: every policy normalize_policies returns has a label that is not empty
\* and holds only characters of [A-Za-z0-9._-], whatever the raw label or
\* prefix was, letters and digits outside ASCII included.
C9_LabelAlphabet ==
    npc = "done" =>
        \A i \in 1..Len(policies) :
            /\ policies[i].huntgroup # <<>>
            /\ \A k \in 1..Len(policies[i].huntgroup) :
                    policies[i].huntgroup[k] \in LabelAlphabet

-----------------------------------------------------------------------------
(* Properties of the deployment *)

Untouched == files = before.files /\ sa = before.sa /\ se = before.se

NoSelectors(cidrs, nasid, called) == cidrs = <<>> /\ nasid = <<>> /\ called = <<>>

\* a raw policy without a prefix, or without any selector (absent or empty)
InvalidRaw(p) ==
    /\ p.isdict
    /\ \/ PrefixOf(p) = <<>>
       \/ NoSelectors(CoerceSelector(p.cidrs),
                      CoerceSelector(p.nas_identifier_regex),
                      CoerceSelector(p.called_station_regex))

\* C2: in either mode, when the check reports failure, the run ends a failure
\* with every target file as it was before the run and one backup per target
\* file holding that content.  Stated for configurations whose policies are
\* all well-formed; the units of virtual-server mode have no backup path in
\* the code, so for them only the restored content is stated.
C2_RollbackOnFailedCheck ==
    (dpc = "done" /\ res = "failed"
        /\ \A i \in 1..Len(cfg.RADIUS_ACCESS_POLICIES) :
                /\ cfg.RADIUS_ACCESS_POLICIES[i].isdict
                /\ ~InvalidRaw(cfg.RADIUS_ACCESS_POLICIES[i])) =>
        /\ rc = 1
        /\ files.hunt = before.files.hunt
        /\ files.site = before.files.site
        /\ sa = before.sa
        /\ se = before.se
        /\ cfg.RADIUS_FR_MODE = "huntgroups" =>
                /\ files.hunt_bak = before.files.hunt
                /\ files.site_bak = before.files.site

\* C6: when normalization yields no policy, the run ends there: no backup,
\* no file written or removed, no check and no restart.
C6_NoPolicyNoOp ==
    (npc = "done" /\ policies = <<>>) =>
        /\ dpc = "done"
        /\ rc = 1
        /\ Untouched
        /\ validatorCalls = 0
        /\ restartCalls = 0

\* no raw policy, enforcement off, and the run over
C6_Witness ==
    /\ dpc = "done"
    /\ npc = "done"
    /\ cfg.RADIUS_ACCESS_POLICIES = <<>>
    /\ ~cfg.RADIUS_ENFORCE_PREFIX_ACCESS
    /\ cfg.RADIUS_PREFIXES # <<>>
    /\ policies = <<>>
    /\ files.hunt # NoFile

\* C7: a raw policy without a prefix, or with a prefix and no selector, makes
\* normalization fail before any file is touched; no such policy is in the
\* normalized list, so none is rendered or deployed.
C7_InvalidPolicyRejected ==
    (npc = "done" /\ \E i \in 1..Len(cfg.RADIUS_ACCESS_POLICIES) :
                        InvalidRaw(cfg.RADIUS_ACCESS_POLICIES[i])) =>
        /\ dpc = "done"
        /\ rc \notin {-1, 0}
        /\ Untouched
        /\ \A i \in 1..Len(policies) :
            /\ policies[i].prefix # <<>>
            /\ ~NoSelectors(policies[i].cidrs, policies[i].nas_identifier_regex,
                            policies[i].called_station_regex)

-----------------------------------------------------------------------------
(* Properties of the classifier *)

\* the label a policy carries once normalized (lines 648-649)
LabelOf(pol) == StrField(NormalizedEntry(pol).huntgroup)

\* C10: after a classification that reached the database, every device some
\* policy matches is assigned the label of the first policy, in list order,
\* that matches it.
C10_FirstMatchLabelAssigned ==
    (cpc = "done" /\ conn = "ok") =>
        \A i \in 1..Len(nas) :
            LET k == FirstMatch(MenuPolicies(cfg), nas0[i], 1) IN
            k # 0 => nas[i].server = LabelOf(MenuPolicies(cfg)[k])

\* C11: a classification never writes to a device whose computed label is
\* the label it already has, writes nothing but the server column, and the
\* count it reports is the number of devices whose server value changed.
C11_WritesOnlyChangedLabels ==
    (cpc = "done" /\ conn = "ok") =>
        /\ \A k \in 1..Len(writes) :
            /\ writes[k].column = "server"
            /\ writes[k].value = Target(MenuPolicies(cfg), nas0[writes[k].id])
            /\ writes[k].value # nas0[writes[k].id].server
        /\ \A i \in 1..Len(nas) :
            /\ nas[i].nasname = nas0[i].nasname
            /\ nas[i].shortname = nas0[i].shortname
            /\ nas[i].server # nas0[i].server => \E k \in 1..Len(writes) : writes[k].id = i
        /\ updated = Cardinality({i \in 1..Len(nas) : nas[i].server # nas0[i].server})

\* two devices the same policy matches, one relabelled and counted, the
\* other already carrying the label and left alone
C11_Witness ==
    /\ cpc = "done"
    /\ conn = "ok"
    /\ Len(nas) = 2
    /\ updated = 1
    /\ Len(writes) = 1
    /\ \E i, j \in 1..2 :
        /\ i # j
        /\ nas[i].server # nas0[i].server
        /\ FirstMatch(MenuPolicies(cfg), nas0[j], 1) # 0
        /\ Target(MenuPolicies(cfg), nas0[j]) = nas0[j].server

-----------------------------------------------------------------------------
(* Properties of the renderings *)

\* A regular expression as the server reads it from a rendered text: rest is
\* the text after the opening delimiter and the "^".  A backslash makes the
\* next character a literal, "." stands for any one character, a token of
\* closers ends the expression; a character of stops is the delimiter met
\* before the end, which leaves text behind the expression and the line
\* unreadable.  No other operator is evaluated.
RECURSIVE ReadPattern(_, _, _)
ReadPattern(rest, closers, stops) ==
    IF rest = <<>> THEN [ok |-> FALSE, items |-> <<>>]
    ELSE IF Head(rest) \in closers THEN [ok |-> TRUE, items |-> <<>>]
    ELSE IF Head(rest) \in stops THEN [ok |-> FALSE, items |-> <<>>]
    ELSE IF Head(rest) = "\\"
    THEN IF Len(rest) < 2 THEN [ok |-> FALSE, items |-> <<>>]
         ELSE LET more == ReadPattern(Tail(Tail(rest)), closers, stops) IN
              [ok |-> more.ok,
               items |-> <<[any |-> FALSE, ch |-> rest[2]]>> \o more.items]
    ELSE IF Head(rest) = "."
    THEN LET more == ReadPattern(Tail(rest), closers, stops) IN
         [ok |-> more.ok, items |-> <<[any |-> TRUE, ch |-> "."]>> \o more.items]
    ELSE IF Head(rest) \in RegexMeta THEN [ok |-> FALSE, items |-> <<>>]
    ELSE LET more == ReadPattern(Tail(rest), closers, stops) IN
         [ok |-> more.ok,
          items |-> <<[any |-> FALSE, ch |-> Head(rest)]>> \o more.items]

\* the expression, anchored at the start, matches the string s
PatternMatches(pat, s) ==
    /\ pat.ok
    /\ Len(pat.items) <= Len(s)
    /\ \A j \in 1..Len(pat.items) : pat.items[j].any \/ pat.items[j].ch = s[j]

\* s starts with the characters of pre
IsPrefixOf(pre, s) == Len(pre) <= Len(s) /\ SubSeq(s, 1, Len(pre)) = pre

\* the text up to the first token of closers
RECURSIVE UpTo(_, _)
UpTo(rest, closers) ==
    IF rest = <<>> \/ Head(rest) \in closers THEN <<>>
    ELSE <<Head(rest)>> \o UpTo(Tail(rest), closers)

\* no regex metacharacter stands without a backslash before it
RECURSIVE WellEscaped(_)
WellEscaped(s) ==
    IF s = <<>> THEN TRUE
    ELSE IF Head(s) = "\\" THEN Len(s) >= 2 /\ WellEscaped(Tail(Tail(s)))
    ELSE Head(s) \notin RegexMeta /\ WellEscaped(Tail(s))

\* what follows "/^" in the gate rule of the first policy, and in its unit
GateRest(gate) == After(gate, IndexOf(gate, "\" && &User-Name !~ /^"))
UnitRest(unit) == After(unit, IndexOf(unit, "        if (&User-Name !~ /^"))

\* the identities the patterns are tried on
Identities == UNION {[1..n -> GateChars \cup {"X"}] : n \in 0..(MaxStr + 1)}

\* C12: for every prefix, the pattern of the gate rule and the pattern of
\* the virtual-server unit match an identity exactly when the identity starts
\* with the prefix, character for character, and every regex metacharacter of
\* the prefix has a backslash before it.
C12_GatePatternIsLiteralPrefix ==
    rpc \in {"once", "twice"} =>
        /\ WellEscaped(UpTo(GateRest(first.gate), {"/)"}))
        /\ WellEscaped(UpTo(UnitRest(first.units[1]), {"/) {"}))
        /\ \A id \in Identities :
            /\ PatternMatches(ReadPattern(GateRest(first.gate), {"/)"}, {"/"}), id)
                    <=> IsPrefixOf(policies[1].prefix, id)
            /\ PatternMatches(ReadPattern(UnitRest(first.units[1]), {"/) {"}, {"/"}), id)
                    <=> IsPrefixOf(policies[1].prefix, id)

\* the addresses the membership rules are tried on
ProbeAddresses ==
    {<<10, 0, 0, 5>>, <<10, 0, 0, 255>>, <<10, 0, 1, 1>>, <<10, 20, 3, 4>>,
     <<10, 200, 3, 4>>, <<100, 1, 1, 1>>, <<192, 168, 1, 7>>, <<192, 168, 1, 70>>}

\* the rule of the first network selector of the first policy: the line
\* after the two comment lines of the membership file
FirstRule(hunt) == SplitLines(hunt)[3]

\* the server's reading of one membership rule against the text of an
\* address: "==" compares the two texts, "=~" searches the expression
RuleMatches(rule, addr) ==
    IF Contains(rule, "NAS-IP-Address == ")
    THEN After(rule, IndexOf(rule, "NAS-IP-Address == ")) = AddrText(addr)
    ELSE LET rest == After(rule, IndexOf(rule, "NAS-IP-Address =~ \"")) IN
         /\ rest # <<>>
         /\ Head(rest) = "^"
         /\ PatternMatches(ReadPattern(Tail(rest), {"\""}, {}), AddrText(addr))

\* C13: the membership rule rendered for an IPv4 selector of mask /8, /16 or
\* /24 matches a dotted-decimal address exactly when the address lies in the
\* selector's network, and the rule of a /32 selector matches that one
\* address only.
C13_CidrRuleMatchesNetwork ==
    (rpc \in {"once", "twice"}
        /\ ParseNetwork(policies[1].cidrs[1]).kind = "v4"
        /\ ParseNetwork(policies[1].cidrs[1]).len \in {8, 16, 24, 32}) =>
        \A a \in ProbeAddresses :
            RuleMatches(FirstRule(first.hunt), a) <=> InNetwork(a, policies[1].cidrs[1])

\* C14: the same ordered policy list rendered twice, at any two moments,
\* gives the same membership file, the same gate snippet and the same
\* virtual-server units.
C14_RenderingsRepeat ==
    rpc = "twice" =>
        /\ second.hunt = first.hunt
        /\ second.gate = first.gate
        /\ second.units = first.units

-----------------------------------------------------------------------------
(* Properties of the order of the deployment's steps *)

\* every target of the run holds what the run renders for it
WritesDone ==
    IF cfg.RADIUS_FR_MODE = "huntgroups"
    THEN /\ new_default.ok
         /\ files.hunt = render_huntgroups_text(policies, Now)
         /\ files.site = new_default.text
    ELSE \A i \in 1..Len(policies) :
            /\ policies[i].huntgroup \in DOMAIN sa
            /\ policies[i].huntgroup \in se
            /\ \E j \in 1..Len(policies) :
                /\ policies[j].huntgroup = policies[i].huntgroup
                /\ sa[policies[i].huntgroup]
                        = render_vs(policies[j].prefix, policies[j].huntgroup)

\* the check runs with every write done and nothing is written after it but
\* what a rollback puts back
CheckAfterWrites ==
    /\ validatorCalls' # validatorCalls => WritesDone
    /\ validatorCalls >= 1 =>
        /\ sa' = sa
        /\ se' = se
        /\ files'.hunt \in {files.hunt, files.hunt_bak}
        /\ files'.site \in {files.site, files.site_bak}
        /\ res = "passed" => files' = files

\* the restart follows a passed check, in a run asked to restart
RestartAfterPassedCheck ==
    /\ restartCalls <= 1
    /\ restartCalls = 1 => (validatorCalls = 1 /\ res = "passed" /\ restart)
    /\ res = "failed" => restartCalls = 0

\* the run is over and has left a target other than it found it
WroteFiles == files.hunt # before.files.hunt \/ files.site # before.files.site
                \/ sa # before.sa \/ se # before.se

C16_FailedRestartKeepsNewFiles ==
    (dpc = "done" /\ res = "passed" /\ restartCalls = 1 /\ rc # 0) =>
        /\ rc = 1
        /\ WritesDone
        /\ files.hunt_bak \in {NoFile, before.files.hunt}
        /\ files.site_bak \in {NoFile, before.files.site}

\* a run that changed its targets, passed the check and failed to restart
C16_Witness ==
    /\ dpc = "done"
    /\ res = "passed"
    /\ restart
    /\ restartCalls = 1
    /\ rc = 1
    /\ WroteFiles

\* the contents the backups of the run hold
BackupContents == {files.hunt_bak, files.site_bak} \ {NoFile}

\* C17: at every state of a run, in either mode, a target file that existed
\* before the run and no longer holds its pre-run content has a backup of
\* the run that holds that content.
C17_ChangedFilesHaveBackup ==
    /\ (before.files.hunt # NoFile /\ files.hunt # before.files.hunt)
            => files.hunt_bak = before.files.hunt
    /\ (before.files.site # NoFile /\ files.site # before.files.site)
            => files.site_bak = before.files.site
    /\ \A n \in DOMAIN before.sa :
            (n \notin DOMAIN sa \/ sa[n] # before.sa[n])
                => before.sa[n] \in BackupContents

\* the run ended in a pre-check: before the policies were normalized (the
\* platform, sudo, the validator binary) or, in group-membership mode, at
\* the gate file that cannot be read
EndedInPrecheck ==
    /\ dpc = "done"
    /\ rc = 2
    /\ \/ npc = "start"
       \/ cfg.RADIUS_FR_MODE = "huntgroups" /\ npc = "done" /\ new_default = NotYet

\* C18: a run that a pre-check ends has, when it returns, made no backup,
\* written and removed no file, and run neither the check nor the restart.
C18_PrecheckAbortTouchesNothing ==
    EndedInPrecheck =>
        /\ Untouched
        /\ files.hunt_bak = NoFile
        /\ files.site_bak = NoFile
        /\ validatorCalls = 0
        /\ restartCalls = 0

\* the policies are there, the membership file and the gate file exist, and
\* the gate file could not be read
C18_Witness ==
    /\ EndedInPrecheck
    /\ npc = "done"
    /\ policies # <<>>
    /\ files.hunt # NoFile
    /\ files.site # NoFile

-----------------------------------------------------------------------------
(* Properties of two concurrent runs *)

\* what a rollback step of run p puts back is what stands under the backup
\* names of run p at that moment, whichever run wrote it there
RestoresOwnBackup(p) ==
    /\ (procs[p].pc = "restore_hunt" /\ procs'[p].pc = "restore_site")
            => rfiles'.hunt = rbaks[procs[p].ts].hunt
    /\ (procs[p].pc = "restore_site" /\ procs'[p].pc = "done")
            => rfiles'.site = rbaks[procs[p].ts].site

\* C19: the runs take no lock.  The steps of two runs interleave freely (the
\* interleaving of the claim is the state reached below), a backup step
\* copies whatever the file holds at that moment, and a rollback puts back
\* what stands under the run's backup names, not what the files held before
\* the runs started.
C19_RollbackRestoresBackupNotOriginal ==
    [][/\ \A p \in Procs : RestoresOwnBackup(p)
       /\ \A p \in Procs :
            (procs[p].pc = "backup_hunt" /\ procs'[p].pc = "backup_site")
                => rbaks'[procs[p].ts].hunt = rfiles.hunt]_vars

\* both runs were between their backup and their check at the same time,
\* one of them failed its check and put the membership file back, and what
\* it put back is not what the file held before either run started
C19_Witness ==
    /\ overlapped
    /\ \E p \in Procs :
        /\ procs[p].pc = "restore_site"
        /\ procs[p].res = "failed"
        /\ rfiles.hunt = rbaks[procs[p].ts].hunt
        /\ rfiles.hunt # HuntOld
        /\ rfiles.hunt # NoFile

-----------------------------------------------------------------------------
(* Properties of the deployed units *)

\* C20: after a deployment in virtual-server mode that ended well, every
\* policy has its unit file and its enabled reference, the file holds the
\* unit rendered for that policy's own prefix, and policies with different
\* prefixes have different files.
C20_OneUnitPerPolicy ==
    (cfg.RADIUS_FR_MODE = "virtual_server" /\ dpc = "done" /\ rc = 0) =>
        /\ \A i \in 1..Len(policies) :
            /\ policies[i].huntgroup \in DOMAIN sa
            /\ policies[i].huntgroup \in se
            /\ sa[policies[i].huntgroup]
                    = render_vs(policies[i].prefix, policies[i].huntgroup)
        /\ \A i, j \in 1..Len(policies) :
            policies[i].prefix # policies[j].prefix
                => policies[i].huntgroup # policies[j].huntgroup

-----------------------------------------------------------------------------
(* Properties of the rollback in group-membership mode *)

\* both "cp -a" of lines 905-906 made their copy
BothBackupsMade == files.hunt_bak # NoFile /\ files.site_bak # NoFile

-----------------------------------------------------------------------------
(* Properties of the injector's fallback and of its failures *)

\* no line declares the authorize block, or the braces counted from the
\* declaring line on never come back to depth zero
NoBlockFound(t) ==
    LET lines == SplitLines(t)
        start == FindAuthorize(lines)
    IN  start = 0 \/ FindClose(lines, start) = 0

\* C23: when the text does not hold both markers and no authorize block is
\* found in it (no declaring line, or braces that never close), the result is
\* the original text, unchanged, followed by a line break, the begin marker
\* on its line, the snippet and the end marker on its line.
C23_FallbackAppendsAfterOriginal ==
    (ipc # "start" /\ ~MarkersPresent(original) /\ NoBlockFound(original)) =>
        /\ injected.ok
        /\ Len(injected.text) = Len(original) + Len(snippet) + 5
        /\ SubSeq(injected.text, 1, Len(original)) = original
        /\ SubSeq(injected.text, Len(original) + 1, Len(original) + 3)
                = <<NL, begin_marker, NL>>
        /\ SubSeq(injected.text, Len(original) + 4, Len(original) + 3 + Len(snippet))
                = snippet
        /\ SubSeq(injected.text, Len(injected.text) - 1, Len(injected.text))
                = <<end_marker, NL>>

\* a text with a declaring line whose block is never closed, injected once
C23_Witness ==
    /\ ipc = "once"
    /\ ~MarkersPresent(original)
    /\ FindAuthorize(SplitLines(original)) # 0
    /\ FindClose(SplitLines(original), FindAuthorize(SplitLines(original))) = 0
    /\ Len(original) > 4
    /\ injected.ok

\* C26: the injector returns a text for every text and snippet, texts whose
\* only end marker stands before the begin marker included; it never raises.
C26_InjectorAlwaysReturns ==
    ipc # "start" => injected.ok

-----------------------------------------------------------------------------
(* Properties of a failed write *)

\* the run ended at line 910 or line 913: the injection was made and one of
\* the two "sudo tee" did not succeed
EndedInFailedWrite ==
    /\ cfg.RADIUS_FR_MODE = "huntgroups"
    /\ dpc = "done"
    /\ rc = 2
    /\ new_default.ok

\* C27: in group-membership mode, when the write of either target file
\* fails, the run returns with both target files holding their pre-run
\* content, a file written earlier in the run having been put back.
C27_FailedWriteLeavesTargets ==
    EndedInFailedWrite =>
        /\ files.hunt = before.files.hunt
        /\ files.site = before.files.site

-----------------------------------------------------------------------------
(* Properties of the removal of stale units *)

\* the names a step takes out of sites-available or out of sites-enabled
RemovedNames == ((DOMAIN sa) \ (DOMAIN sa')) \cup (se \ se')

\* C29: in virtual-server mode a step removes a unit file and its enabled
\* reference only if the file begins with the tool's header line and its
\* name is not a label of the current policy set; a file without the
\* header, or under a current label, is never removed.
C29_OnlyStaleOwnUnitsRemoved ==
    [][\A n \in RemovedNames :
            /\ n \in DOMAIN sa
            /\ StartsWith(sa[n], VsHeader)
            /\ n \notin Labels(policies)]_vars

\* the removal loop is over: the unit of an earlier run is gone with its
\* reference, the distribution's default site and its reference are kept
C29_Witness ==
    /\ cfg.RADIUS_FR_MODE = "virtual_server"
    /\ dpc = "write_vs"
    /\ <<"o", "l", "d">> \in DOMAIN before.sa
    /\ <<"o", "l", "d">> \notin DOMAIN sa
    /\ <<"o", "l", "d">> \notin se
    /\ <<"d", "e", "f", "a", "u", "l", "t">> \in DOMAIN sa
    /\ <<"d", "e", "f", "a", "u", "l", "t">> \in se

-----------------------------------------------------------------------------
(* Properties of the classifier against the deployed units *)

\* C28: every label the classifier writes to a device is the name of the
\* unit the deployment writes for the policy that matched the device (the
\* policy's normalized label), so it is the name of a deployed unit.
C28_WrittenLabelIsUnitName ==
    (cpc = "done" /\ conn = "ok") =>
        \A k \in 1..Len(writes) :
            LET i   == writes[k].id
                pol == MenuPolicies(cfg)[FirstMatch(MenuPolicies(cfg), nas0[i], 1)]
            IN  /\ writes[k].value = LabelOf(pol)
                /\ writes[k].value.val \in Labels(normalize_policies(cfg))

-----------------------------------------------------------------------------
(* Properties of the rotation *)

\* the accounts of a table that belong to a prefix
Belonging(table, p) == {u \in DOMAIN table : matches_prefix(rotcfg, u, p)}

\* how many accounts a run's summary lists as created for a prefix
CreatedFor(run, p) ==
    Cardinality({k \in 1..Len(run.created) : run.created[k][1] = p})

ConfiguredPrefixes == {rotcfg.PREFIXES[i] : i \in 1..Len(rotcfg.PREFIXES)}

\* C21: for every configured prefix, a committed run that finds no account
\* of the prefix creates COUNT_PER_PREFIX of them; a committed run that finds
\* some changes the password of every one of them and creates only the
\* accounts missing up to COUNT_PER_PREFIX; the run after a committed run,
\* the configuration unchanged, creates none.
C21_RotateAllTopUpOnly ==
    \A r \in 1..Len(runs) :
        runs[r].outcome = "committed" =>
            /\ \A p \in ConfiguredPrefixes :
                LET had == Belonging(runs[r].before, p) IN
                /\ had = {} => CreatedFor(runs[r], p) = rotcfg.COUNT_PER_PREFIX
                /\ had # {} =>
                    /\ \A u \in had :
                        /\ u \in DOMAIN runs[r].after
                        /\ runs[r].after[u] # runs[r].before[u]
                    /\ CreatedFor(runs[r], p)
                            = IF Cardinality(had) < rotcfg.COUNT_PER_PREFIX
                              THEN rotcfg.COUNT_PER_PREFIX - Cardinality(had) ELSE 0
            /\ (r > 1 /\ runs[r - 1].outcome = "committed") => runs[r].created = <<>>

\* the entries of the two summaries of a run
Summaries(run) ==
    {run.created[k] : k \in 1..Len(run.created)}
        \cup {run.rotated[k] : k \in 1..Len(run.rotated)}

\* C30: after a committed run, every account and password the run lists as
\* created or as rotated is stored: the account's stored password is the
\* listed one, also when one prefix begins with another.
C30_SummaryMatchesStored ==
    \A r \in 1..Len(runs) :
        runs[r].outcome = "committed" =>
            \A e \in Summaries(runs[r]) :
                /\ e[2] \in DOMAIN runs[r].after
                /\ runs[r].after[e[2]] = e[3]

\* an exception raised by a database operation reached the handler of
\* line 1570 (create_user catches the ProgrammingError of userinfo itself)
Propagated(run) == "error" \in run.raised

\* radcheck changes in one step only: the commit after the last prefix,
\* which stores everything the transaction wrote
CommitsTogether ==
    radcheck' # radcheck =>
        /\ rotpc = "loop"
        /\ pidx = Len(iter_prefixes(rotcfg))
        /\ pending = <<>>
        /\ tocreate = 0
        /\ rotpc' = "done"
        /\ outcome' = "committed"
        /\ radcheck' = tx

\* C24 as stated: the changes of a run are committed together at the end,
\* and a run in which any database operation raised is rolled back, the
\* stored accounts and passwords being those before the run.
C24_AnyRaiseRollsBack ==
    /\ [](\A r \in 1..Len(runs) :
            runs[r].raised # {} =>
                /\ runs[r].outcome = "rolled back"
                /\ runs[r].after = runs[r].before)
    /\ [][CommitsTogether]_vars

\* C24, amended: the changes of a run are committed together at the end,
\* and a run in which a database operation raised an exception that
\* create_user does not catch is rolled back, the stored accounts and
\* passwords being those before the run.
C24_PropagatedRaiseRollsBack ==
    /\ [](\A r \in 1..Len(runs) :
            /\ Propagated(runs[r]) =>
                /\ runs[r].outcome = "rolled back"
                /\ runs[r].after = runs[r].before
            /\ runs[r].outcome # "committed" => runs[r].after = runs[r].before)
    /\ [][CommitsTogether]_vars

\* a run that sent statements for its first prefix, met an exception at its
\* second prefix and was rolled back
C24_Witness ==
    /\ rotpc = "done"
    /\ outcome = "rolled back"
    /\ pidx = 2
    /\ sent # <<>>
    /\ tx = radcheck
    /\ runs[Len(runs)].after = runs[Len(runs)].before

\* C25: in a dry run no INSERT or UPDATE is sent to the database, the
\* transaction is rolled back, and the stored accounts and passwords after
\* the run are those before it.
C25_DryRunSendsNothing ==
    /\ (rotcfg.dry /\ rotpc # "idle") => sent = <<>> /\ tx = radcheck
    /\ \A r \in 1..Len(runs) :
        runs[r].dry =>
            /\ runs[r].sent = <<>>
            /\ runs[r].after = runs[r].before
            /\ runs[r].outcome \in {"dry rollback", "rolled back",
                                     "no connection", "no prefix"}

\* a dry run, over, that listed accounts as created and passwords as changed
C25_Witness ==
    /\ rotcfg.dry
    /\ rotpc = "done"
    /\ outcome = "dry rollback"
    /\ created # <<>>
    /\ rotated # <<>>
    /\ radcheck # <<>>

====
